---- MODULE Spec2Model ----
(***************************************************************************)
(* A model of mrbavii.taskrun (src/mrbavii/taskrun/main.py): the variable  *)
(* environment with its scope stack, the task registry and the recursive   *)
(* task executor (Environment.calltask / Task.execute), the string and     *)
(* shell interface, and the command-line driver with the script loader     *)
(* (App.main, Environment._load / include).                                *)
(*                                                                         *)
(* The Python call stack of calltask/execute activations is the variable   *)
(* `frames`; an exception in flight is the variable `error`.  Variables    *)
(* whose name starts with h_ (and the frame fields of such a name)         *)
(* are history variables: they record what happened and never influence    *)
(* the program's own state.                                                *)
(***************************************************************************)
EXTENDS Integers, Sequences, FiniteSets, TLC

\* ------------------------------------------------------------------------
\* Bounds of the model
\* ------------------------------------------------------------------------

\* The client makes at most MaxCalls top-level calls of env.calltask.
MaxCalls == 2

\* The interpreter's recursion limit, counted in calltask/execute frames:
\* a call that would need more frames raises RecursionError.
MaxFrames == 6

\* The deepest explicit env.push() nesting the client of SpecEnv builds.
MaxPush == 2

\* The number of operations the recorded client of SpecSet makes.
MaxOps == 4

\* The longest string the client of SpecSubst passes to env.escape.
MaxLen == 4

\* The interpreter's recursion limit, counted in nested evaluate calls.
MaxDepth == 3

\* ------------------------------------------------------------------------
\* Values assigned to variables (main.py:47-85)
\* ------------------------------------------------------------------------

Plain(v) == [kind |-> "Plain", value |-> v]
Default(x) == [kind |-> "Default", value |-> x]
Delete == [kind |-> "Delete"]
NoChange == [kind |-> "NoChange"]
Description(d, x) == [kind |-> "Description", desc |-> d, value |-> x]

\* ------------------------------------------------------------------------
\* Dictionaries
\* ------------------------------------------------------------------------

EmptyDict == [x \in {} |-> 0]

DictSet(d, k, v) == [x \in (DOMAIN d) \cup {k} |-> IF x = k THEN v ELSE d[x]]

DictPop(d, k) == [x \in (DOMAIN d) \ {k} |-> d[x]]

\* ------------------------------------------------------------------------
\* The environment as a value: [variables, variables_default, var_desc]
\* ------------------------------------------------------------------------

DefaultAppliesAlways(e, name) == TRUE

\* The test of the Default branch of __setitem__: the name has no value or
\* its value carries the is-default marker
DefaultApplies(e, name) ==
    name \notin DOMAIN e.variables \/ name \in e.variables_default

RECURSIVE SetItem(_, _, _)
\* Environment.__setitem__: e[name] = value
SetItem(e, name, value) ==
    CASE value.kind = "Delete" ->
            [e EXCEPT !.variables = DictPop(@, name),
                      !.variables_default = @ \ {name}]
      [] value.kind = "Default" ->
            IF DefaultApplies(e, name)
            THEN LET e1 == SetItem(e, name, value.value)
                 IN  [e1 EXCEPT !.variables_default = @ \cup {name}]
            ELSE e
      [] value.kind = "NoChange" -> e
      [] value.kind = "Description" ->
            SetItem([e EXCEPT !.var_desc = DictSet(@, name, value.desc)],
                    name, value.value)
      [] OTHER ->
            [e EXCEPT !.variables = DictSet(@, name, value.value),
                      !.variables_default = @ \ {name}]

RECURSIVE UpdateNames(_, _, _)
UpdateNames(e, vars, names) ==
    IF names = {} THEN e
    ELSE LET n == CHOOSE x \in names : TRUE
         IN  UpdateNames(SetItem(e, n, vars[n]), vars, names \ {n})

\* Environment.update(**vars)
Update(e, vars) == UpdateNames(e, vars, DOMAIN vars)

\* A push that saves the mapping only after applying the updates
PushAfterUpdate(e, vars) ==
    LET e1 == Update(e, vars)
    IN  [e1 EXCEPT !.variable_stack = Append(@, e1.variables)]

\* Environment.push(**vars): save the mapping, then apply the updates
Push(e, vars) ==
    Update([e EXCEPT !.variable_stack = Append(@, e.variables)], vars)

\* Environment.pop(): restore the mapping saved last
Pop(e) ==
    [e EXCEPT !.variables = e.variable_stack[Len(e.variable_stack)],
              !.variable_stack = SubSeq(@, 1, Len(@) - 1)]

\* An __enter__ that saves nothing
EnterNoPush(e) == e

\* Environment.__enter__: push() without variables
Enter(e) == Push(e, EmptyDict)

\* An __exit__ that drops the saved mapping and keeps the current one
ExitKeeps(e) ==
    [e EXCEPT !.variable_stack = SubSeq(@, 1, Len(@) - 1)]

\* Environment.__exit__: pop(); the exception, if any, keeps propagating
Exit(e) == Pop(e)

\* ------------------------------------------------------------------------
\* Tasks
\* ------------------------------------------------------------------------

\* Task.__init__: a Description among the task's variables is unwrapped
TaskVars(args) ==
    [n \in DOMAIN args |->
        IF args[n].kind = "Description" THEN args[n].value ELSE args[n]]

NewTask(fn, once, depends, args) ==
    [fn |-> fn, once |-> once, called |-> FALSE,
     depends |-> depends, vars |-> TaskVars(args)]

\* The errors the program raises
NoError == "none"
TaskDefinedError == "Error: Task already defined"
NoSuchTaskError == "Error: No such task"
BodyError == "error raised by a task body"
RecursionError == "RecursionError"

\* The entries registered under a name ([] when the name is unknown)
Entries(reg, name) == IF name \in DOMAIN reg THEN reg[name] ELSE <<>>

\* A duplicate check that lets the second registration through
TaskRefusedLate(reg, name, extend) == Len(Entries(reg, name)) > 1 /\ ~extend

\* Environment.task(name, extend, once, depends, **vars)(fn): the decision
\* to refuse the registration
TaskRefused(reg, name, extend) == Len(Entries(reg, name)) > 0 /\ ~extend

\* Environment.task(...)(fn): the registry after the call
TaskRegistered(reg, name, extend, fn, once, depends, args) ==
    IF TaskRefused(reg, name, extend)
    THEN reg
    ELSE DictSet(reg, name,
                 Append(Entries(reg, name), NewTask(fn, once, depends, args)))

\* A lookup that treats an unregistered name as a name without entries
KnownAlways(reg, name) == TRUE

\* Environment.calltask: if name in self._tasks
Known(reg, name) == name \in DOMAIN reg

\* An early return that ignores the once flag
SkipsCalled(task) == task.called

\* An execute without the early return
SkipsNever(task) == FALSE

\* Task.execute: the early return of a once-task that was already called
Skips(task) == task.once /\ task.called

\* An execute that forgets to set the flag
CalledNot(task) == task

\* Task.execute: self._called = True
Called(task) == [task EXCEPT !.called = TRUE]

\* ------------------------------------------------------------------------
\* The client program: a script that sets variables and registers tasks,
\* followed by calls of env.calltask.  A task body (fn) is the dictionary
\* of assignments it makes through env.update before it returns or raises.
\* ------------------------------------------------------------------------

SetStmt(name, value) ==
    [op |-> "set", name |-> name, value |-> value, extend |-> FALSE,
     once |-> FALSE, depends |-> <<>>, args |-> EmptyDict, fn |-> EmptyDict]

TaskStmt(name, extend, once, depends, args, fn) ==
    [op |-> "task", name |-> name, value |-> NoChange, extend |-> extend,
     once |-> once, depends |-> depends, args |-> args, fn |-> fn]

\* A depends on B and C, which both depend on D
Diamond(onceA, onceD) ==
    << SetStmt("k1", Default(Plain(0))),
       TaskStmt("A", FALSE, onceA, <<"B", "C">>,
                [k1 |-> Plain(1)], [k2 |-> Plain(9)]),
       TaskStmt("B", FALSE, TRUE, <<"D">>, EmptyDict, EmptyDict),
       TaskStmt("C", FALSE, FALSE, <<"D">>,
                [k2 |-> Default(Plain(5))], EmptyDict),
       TaskStmt("D", FALSE, onceD, <<>>,
                [k1 |-> Default(Plain(6))], [k1 |-> Plain(7)]) >>

\* A is registered twice
Extended(once1, once2, extend) ==
    << TaskStmt("A", FALSE, once1, <<>>,
                [k1 |-> Plain(1)], [k2 |-> Plain(9)]),
       TaskStmt("A", extend, once2, <<"D">>,
                [k1 |-> Description("help", Plain(2))], [k2 |-> Plain(8)]),
       TaskStmt("D", FALSE, TRUE, <<>>, EmptyDict, [k1 |-> Delete]) >>

\* A and D depend on each other
Cyclic(once) ==
    << TaskStmt("A", FALSE, once, <<"D">>, [k1 |-> Plain(1)], EmptyDict),
       TaskStmt("D", FALSE, once, <<"A">>, EmptyDict, EmptyDict) >>

\* A depends on D and on a task that is never registered
Missing(once) ==
    << TaskStmt("A", FALSE, once, <<"D", "X">>,
                [k1 |-> Plain(1)], EmptyDict),
       TaskStmt("D", FALSE, FALSE, <<>>, EmptyDict, [k2 |-> Plain(9)]) >>

Scripts ==
    {Diamond(a, d) : a \in BOOLEAN, d \in BOOLEAN}
    \cup {Extended(a, b, x) : a \in BOOLEAN, b \in BOOLEAN, x \in BOOLEAN}
    \cup {Cyclic(a) : a \in BOOLEAN}
    \cup {Missing(a) : a \in BOOLEAN}

\* The task names the client calls, and the extra variables it passes
CallNames == {"A", "D", "X"}

CallVars ==
    {[k1 |-> Plain(2)], [k1 |-> Plain(3)], [k1 |-> Default(Plain(4))]}

\* ------------------------------------------------------------------------
\* State
\* ------------------------------------------------------------------------

VARIABLES
    tasks,              \* Environment._tasks: name -> list of Task
    variables,          \* Environment._variables
    variables_default,  \* Environment._variables_default
    var_desc,           \* Environment._var_desc
    variable_stack,     \* Environment._variable_stack
    frames,             \* the active calltask/execute calls, innermost last
    error,              \* the exception in flight, NoError when none
    script,             \* the script the client runs
    ip,                 \* the next statement of the script
    ncalls,             \* top-level calls of env.calltask made so far
    lastError,          \* the exception the client caught from its last call
    h_log,              \* history: the events of the current top-level call
    h_task,             \* history: per task definition, see NewHistory
    h_saved,            \* history: the mapping before each open explicit push
    h_last,             \* history: the client's latest scope, see NoPop
    filters,            \* Environment._filters: the registered filter names
    text,               \* the string the client got from env.escape
    result,             \* what the client's latest call returned or raised
    h_ops,              \* history: the client's operations, latest last
    h_via,              \* history: how each value was assigned, see NoVia
    cmdline,            \* App.cmdline: the parsed command line
    app,                \* the position and the locals of App.main, see NoApp
    script_stack,       \* Environment._script_stack
    loads               \* the suspended include() calls, innermost last

\* The state of the command-line driver and of the script loader
driver == <<cmdline, app, script_stack, loads>>

\* The state of the string and shell interface and of its client, and of
\* the driver
api == <<filters, text, result, h_ops, h_via, driver>>

vars == <<tasks, variables, variables_default, var_desc, variable_stack,
          frames, error, script, ip, ncalls, lastError,
          h_log, h_task, h_saved, h_last, filters, text, result, h_ops,
          h_via, cmdline, app, script_stack, loads>>

Env ==
    [variables |-> variables, variables_default |-> variables_default,
     var_desc |-> var_desc, variable_stack |-> variable_stack]

SetEnv(e) ==
    /\ variables' = e.variables
    /\ variables_default' = e.variables_default
    /\ var_desc' = e.var_desc
    /\ variable_stack' = e.variable_stack

EnvUnchanged ==
    UNCHANGED <<variables, variables_default, var_desc, variable_stack>>

\* History of one task definition: the number of execute() calls made on
\* it, the extra variables of the first and of the latest of them, how the
\* first one ended, the number of times its body was run, and the variable
\* mapping the body saw the first time.
NewHistory ==
    [ninv |-> 0, first |-> EmptyDict, last |-> EmptyDict,
     firstEnd |-> "none", runs |-> 0, view |-> EmptyDict]

Event(ev, name, i, fd, sd) ==
    [ev |-> ev, name |-> name, i |-> i, fd |-> fd, sd |-> sd]

\* h_last.open: "pushed" after a push with variables, "set" once an
\* assignment changed the mapping in that scope, "none" otherwise.
\* h_last.pop: the latest pop closed such a scope ("outer" at depth one,
\* "nested" deeper), closed another scope ("other"), or none was made.
NoPop == [open |-> "none", pop |-> "none"]

\* h_via.cur: per name of the current scope, "plain" or "default" when its
\* value was last assigned plainly or through a Default (absent: no value);
\* h_via.stack: the same for the scopes saved by push, outermost first;
\* h_via.marks: the marker set before each open push, outermost first.
NoVia == [cur |-> EmptyDict, stack |-> <<>>, marks |-> <<>>]

\* The client has made no call yet
NoResult == [err |-> "none"]

\* App.main has not started.  app.pc: the step of main to take next, an
\* index of MainOrder; app.end: "none" while main runs, else how it ended;
\* app.loading: env._load(self.taskfile) is active; app.taskfile: what
\* find_taskfile found; app.tasks, app.params: what get_tasks_params
\* returned; app.next: the next element of app.tasks to call.
NoApp ==
    [pc |-> 1, end |-> "none", loading |-> FALSE, taskfile |-> <<>>,
     tasks |-> <<>>, params |-> EmptyDict, next |-> 1]

\* No command line
NoCmdline == [params |-> <<>>, file |-> "", dir |-> <<>>, walk |-> FALSE]

ApiInit ==
    /\ filters = {}
    /\ text = <<>>
    /\ result = NoResult
    /\ h_ops = <<>>
    /\ h_via = NoVia
    /\ cmdline = NoCmdline
    /\ app = NoApp
    /\ script_stack = <<>>
    /\ loads = <<>>

\* Environment.__init__
Init ==
    /\ tasks = EmptyDict
    /\ variables = EmptyDict
    /\ variables_default = {}
    /\ var_desc = EmptyDict
    /\ variable_stack = <<>>
    /\ frames = <<>>
    /\ error = NoError
    /\ script \in Scripts
    /\ ip = 1
    /\ ncalls = 0
    /\ lastError = NoError
    /\ h_log = <<>>
    /\ h_task = EmptyDict
    /\ h_saved = <<>>
    /\ h_last = NoPop
    /\ ApiInit

\* ------------------------------------------------------------------------
\* The script: top-level assignments and task registrations
\* ------------------------------------------------------------------------

Loading == ip <= Len(script)

\* env[name] = value at the top level of the script
ScriptSet ==
    /\ Loading /\ script[ip].op = "set"
    /\ SetEnv(SetItem(Env, script[ip].name, script[ip].value))
    /\ ip' = ip + 1
    /\ lastError' = NoError
    /\ UNCHANGED <<tasks, frames, error, script, ncalls, h_log, h_task,
                   h_saved, h_last, api>>

\* @env.task(name, extend, once, depends, **vars) applied to a function
EnvTask ==
    /\ Loading /\ script[ip].op = "task"
    /\ LET s == script[ip]
           refused == TaskRefused(tasks, s.name, s.extend)
       IN  /\ tasks' = TaskRegistered(tasks, s.name, s.extend, s.fn, s.once,
                                      s.depends, s.args)
           /\ lastError' = IF refused THEN TaskDefinedError ELSE NoError
           /\ h_task' = IF Len(Entries(tasks', s.name))
                            > Len(Entries(h_task, s.name))
                        THEN DictSet(h_task, s.name,
                                 Append(Entries(h_task, s.name), NewHistory))
                        ELSE h_task
    /\ ip' = ip + 1
    /\ EnvUnchanged
    /\ UNCHANGED <<frames, error, script, ncalls, h_log, h_saved, h_last, api>>

\* ------------------------------------------------------------------------
\* Environment.calltask and Task.execute, one step at a time
\* ------------------------------------------------------------------------

Frame(fn, name, xvars, i, first) ==
    [fn |-> fn, name |-> name, vars |-> xvars, i |-> i,
     pc |-> IF fn = "execute" THEN "enter" ELSE "loop", di |-> 1,
     h_variables |-> variables, h_depth |-> Len(variable_stack),
     h_first |-> first, h_merged |-> EmptyDict]

Top == frames[Len(frames)]

Running == frames # <<>> /\ error = NoError

InCallTask == Running /\ Top.fn = "calltask"

InExecute == Running /\ Top.fn = "execute"

\* The Task object the innermost execute() runs on
Self == tasks[Top.name][Top.i]

Caller(fs) == SubSeq(fs, 1, Len(fs) - 1)

\* A calltask that stops after the first entry it executed
ReturnedFirstOnly(fs) ==
    LET rest == Caller(fs)
    IN  IF rest = <<>> THEN rest
        ELSE [rest EXCEPT ![Len(rest)] =
                 IF @.fn = "calltask"
                 THEN [@ EXCEPT !.i =
                          Len(Entries(tasks, rest[Len(rest)].name)) + 1]
                 ELSE [@ EXCEPT !.di = @ + 1]]

\* The caller goes on after the innermost call returned: calltask moves to
\* its next entry, execute to its next dependency.
Returned(fs) ==
    LET rest == Caller(fs)
    IN  IF rest = <<>> THEN rest
        ELSE [rest EXCEPT ![Len(rest)] =
                 IF @.fn = "calltask" THEN [@ EXCEPT !.i = @ + 1]
                                      ELSE [@ EXCEPT !.di = @ + 1]]

Log(ev, name, i, fd, sd) == h_log' = Append(h_log, Event(ev, name, i, fd, sd))

\* The client calls env.calltask(name, **xvars)
Call(name, xvars) ==
    /\ ~Loading /\ frames = <<>> /\ error = NoError
    /\ ncalls < MaxCalls
    /\ ncalls' = ncalls + 1
    /\ frames' = <<Frame("calltask", name, xvars, 1, FALSE)>>
    /\ lastError' = NoError
    /\ h_log' = <<Event("call", name, 0, 1, Len(variable_stack))>>
    /\ EnvUnchanged
    /\ UNCHANGED <<tasks, error, script, ip, h_task, h_saved, h_last, api>>

\* calltask: raise Error("No such task")
CallTaskUnknown ==
    /\ InCallTask /\ ~Known(tasks, Top.name)
    /\ error' = NoSuchTaskError
    /\ frames' = Caller(frames)
    /\ EnvUnchanged
    /\ UNCHANGED <<tasks, script, ip, ncalls, lastError, h_log, h_task,
                   h_saved, h_last, api>>

\* calltask: entry.execute(vars) for the next entry
CallTaskEntry ==
    /\ InCallTask /\ Known(tasks, Top.name)
    /\ Top.i <= Len(Entries(tasks, Top.name))
    /\ Len(frames) < MaxFrames
    /\ LET h == h_task[Top.name][Top.i]
       IN  /\ frames' = Append(frames,
                  Frame("execute", Top.name, Top.vars, Top.i, h.ninv = 0))
           /\ h_task' = [h_task EXCEPT ![Top.name][Top.i] =
                  [h EXCEPT !.ninv = @ + 1,
                            !.first = IF h.ninv = 0 THEN Top.vars ELSE @,
                            !.last = Top.vars]]
    /\ EnvUnchanged
    /\ UNCHANGED <<tasks, error, script, ip, ncalls, lastError, h_log,
                   h_saved, h_last, api>>

\* calltask: every entry was executed, return
CallTaskReturn ==
    /\ InCallTask /\ Known(tasks, Top.name)
    /\ Top.i > Len(Entries(tasks, Top.name))
    /\ frames' = Returned(frames)
    /\ Log("ret", Top.name, 0, Len(frames), Len(variable_stack))
    /\ EnvUnchanged
    /\ UNCHANGED <<tasks, error, script, ip, ncalls, lastError, h_task,
                   h_saved, h_last, api>>

\* execute: if self._once and self._called: return
ExecuteSkip ==
    /\ InExecute /\ Top.pc = "enter" /\ Skips(Self)
    /\ frames' = Returned(frames)
    /\ Log("skip", Top.name, Top.i, Len(frames), Len(variable_stack))
    /\ EnvUnchanged
    /\ UNCHANGED <<tasks, error, script, ip, ncalls, lastError, h_task,
                   h_saved, h_last, api>>

\* A merge that applies the caller's variables first
MergedCallerFirst(e, task, xvars) == Update(Update(e, xvars), task.vars)

\* The variables of a task invocation: the task's own, then the caller's
Merged(e, task, xvars) == Update(Update(e, task.vars), xvars)

\* execute: with self._env: update(**self._vars); update(**vars)
ExecuteEnter ==
    /\ InExecute /\ Top.pc = "enter" /\ ~Skips(Self)
    /\ SetEnv(Merged(Enter(Env), Self, Top.vars))
    /\ frames' = [frames EXCEPT ![Len(frames)].pc = "with",
                                ![Len(frames)].h_merged = variables']
    /\ Log("enter", Top.name, Top.i, Len(frames), Len(variable_stack) + 1)
    /\ UNCHANGED <<tasks, error, script, ip, ncalls, lastError, h_task,
                   h_saved, h_last, api>>

\* A loop over the dependencies that stops after the first one
DependsDoneEarly(task, di) == di > Len(task.depends) \/ di > 1

\* The dependencies of a task were all invoked
DependsDone(task, di) == di > Len(task.depends)

\* execute: self._env.calltask(depends) for the next dependency
DependsVarsForwarded(xvars) == xvars

\* The extra variables of self._env.calltask(depends): none
DependsVars(xvars) == EmptyDict

\* A loop over the dependencies that passes over a dependency whose
\* execute is still active further down the call stack
ExecuteDependsGuarded ==
    /\ InExecute /\ Top.pc = "with" /\ ~DependsDone(Self, Top.di)
    /\ Len(frames) < MaxFrames
    /\ frames' =
          IF \E j \in 1..Len(frames) :
                 /\ frames[j].fn = "execute"
                 /\ frames[j].name = Self.depends[Top.di]
          THEN [frames EXCEPT ![Len(frames)].di = @ + 1]
          ELSE Append(frames,
                   Frame("calltask", Self.depends[Top.di],
                         DependsVars(Top.vars), 1, FALSE))
    /\ Log("call", Self.depends[Top.di], 0, Len(frames) + 1,
           Len(variable_stack))
    /\ EnvUnchanged
    /\ UNCHANGED <<tasks, error, script, ip, ncalls, lastError, h_task,
                   h_saved, h_last, api>>

ExecuteDepends ==
    /\ InExecute /\ Top.pc = "with" /\ ~DependsDone(Self, Top.di)
    /\ Len(frames) < MaxFrames
    /\ frames' = Append(frames,
           Frame("calltask", Self.depends[Top.di], DependsVars(Top.vars), 1,
                 FALSE))
    /\ Log("call", Self.depends[Top.di], 0, Len(frames) + 1,
           Len(variable_stack))
    /\ EnvUnchanged
    /\ UNCHANGED <<tasks, error, script, ip, ncalls, lastError, h_task,
                   h_saved, h_last, api>>

\* An execute that sets the flag before it calls the body
ExecuteBodyMarksFirst(raises) ==
    /\ InExecute /\ Top.pc = "with" /\ DependsDone(Self, Top.di)
    /\ SetEnv(Update(Env, Self.fn))
    /\ tasks' = [tasks EXCEPT ![Top.name][Top.i] = Called(@)]
    /\ IF raises
       THEN /\ error' = BodyError
            /\ UNCHANGED frames
       ELSE /\ frames' = [frames EXCEPT ![Len(frames)].pc = "exit"]
            /\ error' = error
    /\ h_task' = [h_task EXCEPT ![Top.name][Top.i] =
           [@ EXCEPT !.runs = @ + 1,
                     !.view = IF h_task[Top.name][Top.i].runs = 0
                              THEN variables ELSE @]]
    /\ Log("body", Top.name, Top.i, Len(frames), Len(variable_stack))
    /\ UNCHANGED <<script, ip, ncalls, lastError, h_saved, h_last, api>>

\* An execute that keeps one flag for all definitions under a name
ExecuteBodyMarksName(raises) ==
    /\ InExecute /\ Top.pc = "with" /\ DependsDone(Self, Top.di)
    /\ SetEnv(Update(Env, Self.fn))
    /\ IF raises
       THEN /\ error' = BodyError
            /\ UNCHANGED <<tasks, frames>>
       ELSE /\ tasks' = [tasks EXCEPT ![Top.name] =
                   [j \in DOMAIN @ |-> Called(@[j])]]
            /\ frames' = [frames EXCEPT ![Len(frames)].pc = "exit"]
            /\ error' = error
    /\ h_task' = [h_task EXCEPT ![Top.name][Top.i] =
           [@ EXCEPT !.runs = @ + 1,
                     !.view = IF h_task[Top.name][Top.i].runs = 0
                              THEN variables ELSE @]]
    /\ Log("body", Top.name, Top.i, Len(frames), Len(variable_stack))
    /\ UNCHANGED <<script, ip, ncalls, lastError, h_saved, h_last, api>>

\* execute: self._fn(); self._called = True.  The body makes its
\* assignments and then returns or raises.
ExecuteBody(raises) ==
    /\ InExecute /\ Top.pc = "with" /\ DependsDone(Self, Top.di)
    /\ SetEnv(Update(Env, Self.fn))
    /\ IF raises
       THEN /\ error' = BodyError
            /\ UNCHANGED <<tasks, frames>>
       ELSE /\ tasks' = [tasks EXCEPT ![Top.name][Top.i] = Called(@)]
            /\ frames' = [frames EXCEPT ![Len(frames)].pc = "exit"]
            /\ error' = error
    /\ h_task' = [h_task EXCEPT ![Top.name][Top.i] =
           [@ EXCEPT !.runs = @ + 1,
                     !.view = IF h_task[Top.name][Top.i].runs = 0
                              THEN variables ELSE @]]
    /\ Log("body", Top.name, Top.i, Len(frames), Len(variable_stack))
    /\ UNCHANGED <<script, ip, ncalls, lastError, h_saved, h_last, api>>

\* How the first execute() of a task definition ended
FirstEnded(how) ==
    h_task' = IF Top.h_first
              THEN [h_task EXCEPT ![Top.name][Top.i].firstEnd = how]
              ELSE h_task

\* execute: the with block is left normally
ExecuteExit ==
    /\ InExecute /\ Top.pc = "exit"
    /\ SetEnv(Exit(Env))
    /\ frames' = Returned(frames)
    /\ FirstEnded("returned")
    /\ Log("exit", Top.name, Top.i, Len(frames), Len(variable_stack) - 1)
    /\ UNCHANGED <<tasks, error, script, ip, ncalls, lastError, h_saved,
                   h_last, api>>

\* An exception that leaves execute without running __exit__
ExecuteUnwindNoExit ==
    /\ frames # <<>> /\ error # NoError /\ Top.fn = "execute"
    /\ frames' = Caller(frames)
    /\ FirstEnded("raised")
    /\ EnvUnchanged
    /\ UNCHANGED <<tasks, error, script, ip, ncalls, lastError, h_log,
                   h_saved, h_last, api>>

\* execute: an exception leaves the with block
ExecuteUnwind ==
    /\ frames # <<>> /\ error # NoError /\ Top.fn = "execute"
    /\ SetEnv(Exit(Env))
    /\ frames' = Caller(frames)
    /\ FirstEnded("raised")
    /\ UNCHANGED <<tasks, error, script, ip, ncalls, lastError, h_log,
                   h_saved, h_last, api>>

\* calltask: an exception raised by entry.execute propagates
CallTaskUnwind ==
    /\ frames # <<>> /\ error # NoError /\ Top.fn = "calltask"
    /\ frames' = Caller(frames)
    /\ EnvUnchanged
    /\ UNCHANGED <<tasks, error, script, ip, ncalls, lastError, h_log,
                   h_task, h_saved, h_last, api>>

\* A call that needs one frame more than the interpreter allows
RecursionLimit ==
    /\ Running /\ Len(frames) >= MaxFrames
    /\ \/ Top.fn = "calltask" /\ Known(tasks, Top.name)
          /\ Top.i <= Len(Entries(tasks, Top.name))
       \/ Top.fn = "execute" /\ Top.pc = "with"
          /\ ~DependsDone(Self, Top.di)
    /\ error' = RecursionError
    /\ EnvUnchanged
    /\ UNCHANGED <<tasks, frames, script, ip, ncalls, lastError, h_log,
                   h_task, h_saved, h_last, api>>

\* The client catches the exception of its call
Catch ==
    /\ frames = <<>> /\ error # NoError
    /\ lastError' = error
    /\ error' = NoError
    /\ EnvUnchanged
    /\ UNCHANGED <<tasks, frames, script, ip, ncalls, h_log, h_task,
                   h_saved, h_last, api>>

Next ==
    \/ ScriptSet
    \/ EnvTask
    \/ \E name \in CallNames, xvars \in CallVars : Call(name, xvars)
    \/ CallTaskUnknown
    \/ CallTaskEntry
    \/ CallTaskReturn
    \/ ExecuteSkip
    \/ ExecuteEnter
    \/ ExecuteDepends
    \/ \E raises \in BOOLEAN : ExecuteBody(raises)
    \/ ExecuteExit
    \/ ExecuteUnwind
    \/ CallTaskUnwind
    \/ RecursionLimit
    \/ Catch

Spec == Init /\ [][Next]_vars

\* ------------------------------------------------------------------------
\* The environment used directly: a client that only assigns variables and
\* opens and closes scopes with env.push(**vars) and env.pop()
\* ------------------------------------------------------------------------

Names == {"k1", "k2"}

\* The values the client assigns
SetValues ==
    {Plain(1), Plain(2), Default(Plain(1)), Delete, NoChange,
     Description("help", Plain(2)), Description("help", NoChange),
     Default(Delete), Default(Default(Plain(2)))}

\* The variables the client passes to push
PushVars ==
    {EmptyDict, [k1 |-> Plain(2)], [k1 |-> Default(Plain(1)), k2 |-> Delete]}

InitEnv ==
    /\ tasks = EmptyDict
    /\ variables = EmptyDict
    /\ variables_default = {}
    /\ var_desc = EmptyDict
    /\ variable_stack = <<>>
    /\ frames = <<>>
    /\ error = NoError
    /\ script = <<>>
    /\ ip = 1
    /\ ncalls = 0
    /\ lastError = NoError
    /\ h_log = <<>>
    /\ h_task = EmptyDict
    /\ h_saved = <<>>
    /\ h_last = NoPop
    /\ ApiInit

NotEnv ==
    UNCHANGED <<tasks, frames, error, script, ip, ncalls, lastError, h_log,
                h_task, api>>

\* env[name] = value
EnvSet(name, value) ==
    /\ SetEnv(SetItem(Env, name, value))
    /\ h_last' = IF h_last.open = "pushed" /\ variables' # variables
                 THEN [h_last EXCEPT !.open = "set"]
                 ELSE h_last
    /\ UNCHANGED h_saved
    /\ NotEnv

\* env.push(**pvars)
EnvPush(pvars) ==
    /\ Len(variable_stack) < MaxPush
    /\ SetEnv(Push(Env, pvars))
    /\ h_saved' = Append(h_saved, variables)
    /\ h_last' = [h_last EXCEPT
                     !.open = IF pvars # EmptyDict THEN "pushed" ELSE "none"]
    /\ NotEnv

\* env.pop()
EnvPop ==
    /\ variable_stack # <<>>
    /\ SetEnv(Pop(Env))
    /\ h_saved' = SubSeq(h_saved, 1, Len(h_saved) - 1)
    /\ h_last' = [open |-> "none",
                  pop |-> IF h_last.open # "set" THEN "other"
                          ELSE IF Len(h_saved) = 1 THEN "outer" ELSE "nested"]
    /\ NotEnv

NextEnv ==
    \/ \E name \in Names, value \in SetValues : EnvSet(name, value)
    \/ \E pvars \in PushVars : EnvPush(pvars)
    \/ EnvPop

SpecEnv == InitEnv /\ [][NextEnv]_vars

\* ------------------------------------------------------------------------
\* The environment used directly, with the client's operations recorded:
\* at most MaxOps assignments, pushes and pops
\* ------------------------------------------------------------------------

\* The values the recorded client assigns
ClientValues ==
    {Plain(1), Default(Plain(2)), Default(Plain(3)), Delete, NoChange,
     Default(Delete)}

\* The variables the recorded client passes to push
ClientPushVars == {EmptyDict, [k1 |-> Plain(1)]}

Op(op, name, value, pvars) ==
    [op |-> op, name |-> name, value |-> value, vars |-> pvars]

RECURSIVE Via(_, _, _)
\* How the value of a name was last assigned, after name = value: the
\* assignment rules as they are documented, kept without the marker set
Via(cur, name, value) ==
    CASE value.kind = "Delete" -> DictPop(cur, name)
      [] value.kind = "Default" ->
            IF name \notin DOMAIN cur \/ cur[name] = "default"
            THEN LET c1 == Via(cur, name, value.value)
                 IN  IF name \in DOMAIN c1
                     THEN DictSet(c1, name, "default")
                     ELSE c1
            ELSE cur
      [] value.kind = "NoChange" -> cur
      [] value.kind = "Description" -> Via(cur, name, value.value)
      [] OTHER -> DictSet(cur, name, "plain")

RECURSIVE ViaNames(_, _, _)
ViaNames(cur, pvars, names) ==
    IF names = {} THEN cur
    ELSE LET n == CHOOSE x \in names : TRUE
         IN  ViaNames(Via(cur, n, pvars[n]), pvars, names \ {n})

InitSet == InitEnv

NotSet ==
    UNCHANGED <<tasks, frames, error, script, ip, ncalls, lastError, h_log,
                h_task, h_saved, h_last, filters, text, result, driver>>

\* env[name] = value
ClientSet(name, value) ==
    /\ Len(h_ops) < MaxOps
    /\ SetEnv(SetItem(Env, name, value))
    /\ h_ops' = Append(h_ops, Op("set", name, value, EmptyDict))
    /\ h_via' = [h_via EXCEPT !.cur = Via(@, name, value)]
    /\ NotSet

\* env.push(**pvars)
ClientPush(pvars) ==
    /\ Len(h_ops) < MaxOps
    /\ SetEnv(Push(Env, pvars))
    /\ h_ops' = Append(h_ops, Op("push", "", NoChange, pvars))
    /\ h_via' = [cur |-> ViaNames(h_via.cur, pvars, DOMAIN pvars),
                 stack |-> Append(h_via.stack, h_via.cur),
                 marks |-> Append(h_via.marks, variables_default)]
    /\ NotSet

\* env.pop()
ClientPop ==
    /\ Len(h_ops) < MaxOps
    /\ variable_stack # <<>>
    /\ SetEnv(Pop(Env))
    /\ h_ops' = Append(h_ops, Op("pop", "", NoChange, EmptyDict))
    /\ h_via' = [cur |-> h_via.stack[Len(h_via.stack)],
                 stack |-> SubSeq(h_via.stack, 1, Len(h_via.stack) - 1),
                 marks |-> SubSeq(h_via.marks, 1, Len(h_via.marks) - 1)]
    /\ NotSet

NextSet ==
    \/ \E name \in Names, value \in ClientValues : ClientSet(name, value)
    \/ \E pvars \in ClientPushVars : ClientPush(pvars)
    \/ ClientPop

SpecSet == InitSet /\ [][NextSet]_vars

\* ------------------------------------------------------------------------
\* Strings: subst, evaluate, escape and the filters (main.py:194-257,
\* 310-330).  A string is a sequence of tokens: the characters the code
\* looks at, "$", "(", ")" and "|", and words standing for runs of other
\* characters.  A variable name is such a string.
\* ------------------------------------------------------------------------

\* A plain string and a Literal wrapping one
Str(s) == [t |-> "str", s |-> s]

Literal(s) == [t |-> "Literal", s |-> s]

VariableError == "VariableError"
NoSuchFilterError == "Error: No such filter"
FilterDefinedError == "Error: Filter already defined"

\* The outcome of a call: the exception raised (NoError when it returned)
\* with its argument, the value returned, and history: the names looked up
\* with __getitem__ and the filter names passed to callfilter, in order.
Ok(v) == [err |-> NoError, arg |-> <<>>, val |-> v, gets |-> <<>>,
          calls |-> <<>>]

Raise(e, a) == [err |-> e, arg |-> a, val |-> Str(<<>>), gets |-> <<>>,
                calls |-> <<>>]

\* r2 run after r1 returned; the value is r2's
After(r1, r2) ==
    IF r1.err # NoError THEN r1
    ELSE [r2 EXCEPT !.gets = r1.gets \o @, !.calls = r1.calls \o @]

\* The text of r1 followed by the text of r2, as re.sub joins its pieces
Joined(r1, r2) ==
    IF r1.err # NoError THEN r1
    ELSE LET r == After(r1, r2)
         IN  IF r.err # NoError THEN r
             ELSE [r EXCEPT !.val = Str(r1.val.s \o r2.val.s)]

\* The first position from i on where s holds the token c, 0 when none
RECURSIVE IndexOf(_, _, _)
IndexOf(s, c, i) ==
    IF i > Len(s) THEN 0
    ELSE IF s[i] = c THEN i
    ELSE IndexOf(s, c, i + 1)

\* str.split(sep)
RECURSIVE Split(_, _)
Split(s, sep) ==
    LET i == IndexOf(s, sep, 1)
    IN  IF i = 0 THEN <<s>>
        ELSE <<SubSeq(s, 1, i - 1)>> \o Split(SubSeq(s, i + 1, Len(s)), sep)

\* A registered filter, applied: the filter named n appends n to its input
FilterFn(n, value) == Str(value.s \o n)

\* Environment.__getitem__
GetItem(e, name) ==
    IF name \in DOMAIN e.variables
    THEN [Ok(e.variables[name]) EXCEPT !.gets = <<name>>]
    ELSE [Raise(VariableError, name) EXCEPT !.gets = <<name>>]

\* Environment.callfilter
CallFilter(fs, n, value) ==
    IF n \in fs
    THEN [Ok(FilterFn(n, value)) EXCEPT !.calls = <<n>>]
    ELSE [Raise(NoSuchFilterError, n) EXCEPT !.calls = <<n>>]

\* The filters of subfn, one after the other
RECURSIVE CallFilters(_, _, _)
CallFilters(fs, names, r) ==
    IF r.err # NoError \/ names = <<>> THEN r
    ELSE CallFilters(fs, Tail(names),
                     After(r, CallFilter(fs, Head(names), r.val)))

NonEmpty(part) == Len(part) # 0

FilterNamesBoth(parts, filter) ==
    SelectSeq(Tail(parts), NonEmpty)
        \o (IF filter # <<>> THEN Split(filter, "|") ELSE <<>>)

\* The filters subfn applies to a placeholder with these parts: the
\* non-empty ones it lists after the name, or else those of the filter
\* argument of subst (<<>> stands for a false one: None or "")
FilterNames(parts, filter) ==
    IF Len(parts) > 1 THEN SelectSeq(Tail(parts), NonEmpty)
    ELSE IF filter # <<>> THEN Split(filter, "|")
    ELSE <<>>
RECURSIVE Subst(_, _, _, _, _)
RECURSIVE Scan(_, _, _, _, _, _)

EvaluateNoSubst(e, fs, name, depth) == GetItem(e, name)

\* Environment.evaluate: subst, without filter, of the variable's value.
\* depth counts the evaluate calls the interpreter still has room for.
Evaluate(e, fs, name, depth) ==
    LET g == GetItem(e, name)
    IN  IF g.err # NoError THEN g
        ELSE IF depth = 0
        THEN [Raise(RecursionError, <<>>) EXCEPT !.gets = g.gets]
        ELSE After(g, Subst(e, fs, g.val, <<>>, depth - 1))

\* subfn of subst for the placeholder $(body)
SubFn(e, fs, body, filter, depth) ==
    LET parts == Split(body, "|")
    IN  CallFilters(fs, FilterNames(parts, filter),
                    Evaluate(e, fs, parts[1], depth))

\* re.sub(r"\$\$|\$\(.*?\)", subfn, s) from position i on: at each
\* position "$$" is tried first, then "$(" up to the nearest ")"; a
\* token that starts neither is copied
Scan(e, fs, s, i, filter, depth) ==
    IF i > Len(s) THEN Ok(Str(<<>>))
    ELSE IF s[i] = "$" /\ i < Len(s) /\ s[i + 1] = "$"
    THEN Joined(Ok(Str(<<"$">>)), Scan(e, fs, s, i + 2, filter, depth))
    ELSE IF /\ s[i] = "$" /\ i < Len(s) /\ s[i + 1] = "("
            /\ IndexOf(s, ")", i + 2) # 0
    THEN LET j == IndexOf(s, ")", i + 2)
             r == SubFn(e, fs, SubSeq(s, i + 2, j - 1), filter, depth)
         IN  IF r.err # NoError THEN r
             ELSE Joined(r, Scan(e, fs, s, j + 1, filter, depth))
    ELSE Joined(Ok(Str(<<s[i]>>)), Scan(e, fs, s, i + 1, filter, depth))

\* The list branch of subst: the items, one after the other
RECURSIVE SubstItems(_, _, _, _, _)
SubstItems(e, fs, items, filter, depth) ==
    IF items = <<>> THEN Ok([t |-> "list", items |-> <<>>])
    ELSE LET r1 == Subst(e, fs, Head(items), filter, depth)
             r2 == After(r1, SubstItems(e, fs, Tail(items), filter, depth))
         IN  IF r2.err # NoError THEN r2
             ELSE [r2 EXCEPT !.val.items = <<r1.val>> \o @]

\* Environment.subst(value, filter); the tuple and dict branches work as
\* the list branch does
Subst(e, fs, value, filter, depth) ==
    IF value.t = "Literal" THEN Ok(Str(value.s))
    ELSE IF value.t = "list"
    THEN SubstItems(e, fs, value.items, filter, depth)
    ELSE IF value.t = "str" THEN Scan(e, fs, value.s, 1, filter, depth)
    ELSE Ok(value)

EscapeFirst(s) ==
    LET i == IndexOf(s, "$", 1)
    IN  IF i = 0 THEN s
        ELSE SubSeq(s, 1, i) \o <<"$">> \o SubSeq(s, i + 1, Len(s))

\* Environment.escape: re.sub(r"\$", "$$", s)
RECURSIVE Escape(_)
Escape(s) ==
    IF s = <<>> THEN <<>>
    ELSE (IF Head(s) = "$" THEN <<"$", "$">> ELSE <<Head(s)>>)
             \o Escape(Tail(s))

AfterGetInserting(e, name) ==
    IF name \in DOMAIN e.variables THEN e
    ELSE [e EXCEPT !.variables = DictSet(@, name, Str(<<>>))]

\* The environment after __getitem__(name): as it was
AfterGet(e, name) == e

\* The environment after the lookups of a call, in order
RECURSIVE AfterGets(_, _)
AfterGets(e, names) ==
    IF names = <<>> THEN e
    ELSE AfterGets(AfterGet(e, Head(names)), Tail(names))

\* ------------------------------------------------------------------------
\* The client of the string interface: it assigns strings to variables and
\* registers filters, then makes one call of get, evaluate or subst, or
\* one call of escape followed by subst of the escaped string
\* ------------------------------------------------------------------------

Tokens == {"$", "(", ")", "|", "a"}

\* The strings of at most n tokens
Strings(n) == UNION {[1..k -> Tokens] : k \in 0..n}

\* The placeholder $(body)
Placeholder(body) == <<"$", "(">> \o body \o <<")">>

SubstNames == {<<"a">>, <<"b">>}

\* The assignments the client makes: name, value
SubstAssignments ==
    {<<(<<"a">>), Str(<<"x">>)>>,
     <<(<<"a">>), Str(Placeholder(<<"b">>))>>,
     <<(<<"a">>), Literal(Placeholder(<<"b">>))>>,
     <<(<<"b">>), Str(<<"y">>)>>,
     <<(<<"b">>), Str(Placeholder(<<"b", "|", "f">>))>>}

FilterPool == {<<"f">>, <<"g">>}

\* The filter argument of subst
AutoFilters == {<<>>, <<"f", "|", "g">>}

\* The values the client passes to subst
SubstInputs ==
    {Str(Placeholder(body)) :
        body \in {<<"a">>, <<"b">>, <<"a", "|">>, <<"a", "|", "f">>,
                  <<"a", "|", "f", "|", "g">>, <<"a", "|", "g", "|", "f">>,
                  <<"a", "|", "|", "g">>}}
    \cup {Str(<<"x", "$", "$">> \o Placeholder(<<"a">>)),
          Literal(Placeholder(<<"a">>)),
          [t |-> "list",
           items |-> <<Str(Placeholder(<<"a">>)),
                       Literal(Placeholder(<<"a">>))>>]}

InitSubst == InitEnv

\* The client has made no call yet
Ready == h_ops = <<>>

NotSubst ==
    UNCHANGED <<tasks, frames, error, script, ip, ncalls, lastError, h_log,
                h_task, h_saved, h_last, h_via, driver>>

\* env[name] = value, for a string or a Literal
EnvSetText(name, value) ==
    /\ Ready
    /\ SetEnv(SetItem(Env, name, Plain(value)))
    /\ UNCHANGED <<filters, text, result, h_ops>>
    /\ NotSubst

\* @env.filter(n): Environment.filter
EnvFilter(n) ==
    /\ Ready
    /\ IF n \in filters
       THEN /\ result' = Raise(FilterDefinedError, n)
            /\ h_ops' = <<Op("filter", n, Str(<<>>), EmptyDict)>>
            /\ UNCHANGED filters
       ELSE /\ filters' = filters \cup {n}
            /\ UNCHANGED <<result, h_ops>>
    /\ EnvUnchanged
    /\ UNCHANGED text
    /\ NotSubst

\* env[name]
EnvGet(name) ==
    /\ Ready
    /\ result' = GetItem(Env, name)
    /\ SetEnv(AfterGets(Env, result'.gets))
    /\ h_ops' = <<Op("get", name, Str(<<>>), EmptyDict)>>
    /\ UNCHANGED <<filters, text>>
    /\ NotSubst

\* env.evaluate(name)
EnvEvaluate(name) ==
    /\ Ready
    /\ result' = Evaluate(Env, filters, name, MaxDepth)
    /\ SetEnv(AfterGets(Env, result'.gets))
    /\ h_ops' = <<Op("evaluate", name, Str(<<>>), EmptyDict)>>
    /\ UNCHANGED <<filters, text>>
    /\ NotSubst

\* env.subst(value, filter)
EnvSubst(value, filter) ==
    /\ Ready
    /\ result' = Subst(Env, filters, value, filter, MaxDepth)
    /\ SetEnv(AfterGets(Env, result'.gets))
    /\ h_ops' = <<Op("subst", <<>>, value, [filter |-> filter])>>
    /\ UNCHANGED <<filters, text>>
    /\ NotSubst

\* text = env.escape(s)
EnvEscape(s) ==
    /\ Ready
    /\ text' = Escape(s)
    /\ result' = Ok(Str(text'))
    /\ h_ops' = <<Op("escape", <<>>, Str(s), EmptyDict)>>
    /\ EnvUnchanged
    /\ UNCHANGED filters
    /\ NotSubst

\* env.subst(text, filter) of the string escape returned
EnvSubstText(filter) ==
    /\ Len(h_ops) = 1 /\ h_ops[1].op = "escape"
    /\ result' = Subst(Env, filters, Str(text), filter, MaxDepth)
    /\ SetEnv(AfterGets(Env, result'.gets))
    /\ h_ops' = Append(h_ops,
                       Op("subst", <<>>, Str(text), [filter |-> filter]))
    /\ UNCHANGED <<filters, text>>
    /\ NotSubst

NextSubst ==
    \/ \E a \in SubstAssignments : EnvSetText(a[1], a[2])
    \/ \E n \in FilterPool : EnvFilter(n)
    \/ \E name \in SubstNames : EnvGet(name)
    \/ \E name \in SubstNames : EnvEvaluate(name)
    \/ \E value \in SubstInputs, filter \in AutoFilters :
           EnvSubst(value, filter)
    \/ \E s \in (IF Ready THEN Strings(MaxLen) ELSE {}) : EnvEscape(s)
    \/ \E filter \in AutoFilters : EnvSubstText(filter)

SpecSubst == InitSubst /\ [][NextSubst]_vars

\* ------------------------------------------------------------------------
\* Shell commands: Environment.run (main.py:372-432)
\* ------------------------------------------------------------------------

\* The capture modes
NONE == 0
STDOUT == 1
STDERR == 2
STDERROUT == 4

\* capture & flag
Has(capture, flag) == (capture \div flag) % 2 = 1

CommandError == "CommandError: Unexpected return value"
OSError == "OSError"

\* class ShellError(CommandError)
ShellError == "ShellError"

None == [t |-> "None"]

SHELL == <<"_SHELL_">>
SHELLENV == <<"_SHELLENV_">>
SHELLFILTER == <<"_SHELLFILTER_">>
QUIET == <<"_QUIET_">>

\* What the process writes to its standard output and standard error
ProcessOut == <<"o">>
ProcessErr == <<"e">>

\* self.evaluate(name) if name in self else the default
EvaluateIfSet(e, fs, name, default) ==
    IF name \in DOMAIN e.variables
    THEN Evaluate(e, fs, name, MaxDepth)
    ELSE Ok(default)

\* bool(value) of a string or None
Bool(value) == value.t = "str" /\ value.s # <<>>

\* The filter argument of subst for run's filter variable
AsFilter(value) == IF value.t = "str" THEN value.s ELSE <<>>

\* RunResult(stdout, stderr, retcode, _result); bool() of one is _result
RunResult(stdout, stderr, retcode, success) ==
    [t |-> "RunResult", stdout |-> stdout, stderr |-> stderr,
     retcode |-> retcode, result |-> success]

AbortsOnAnyCode(retcode, retvals, abort) == abort

\* The test that makes run raise CommandError
Aborts(retcode, retvals, abort) == retcode \notin retvals /\ abort

\* Popen, communicate and the rest of run: w.launch tells whether Popen
\* started the process, w.rc is the return code of the process
Process(p, w) ==
    LET pipeOut == Has(p.capture, STDOUT) \/ Has(p.capture, STDERROUT)
        stdout == IF ~pipeOut THEN None
                  ELSE IF ~Has(p.capture, STDERR)
                          /\ Has(p.capture, STDERROUT)
                  THEN Str(ProcessOut \o ProcessErr)
                  ELSE Str(ProcessOut)
        stderr == IF Has(p.capture, STDERR) THEN Str(ProcessErr) ELSE None
    IN  IF ~w.launch THEN Raise(OSError, <<>>)
        ELSE IF Aborts(w.rc, p.retvals, p.abort)
        THEN Raise(CommandError, <<>>)
        ELSE Ok(RunResult(stdout, stderr, w.rc, w.rc \in p.retvals))

\* Environment.run(command, quiet, abort, capture, retvals, filter), with
\* self._verbose empty as __init__ leaves it; the field printed of the
\* outcome is what run wrote with outputln, h_exited tells whether the
\* process was started and has exited, h_failed whether Popen was reached
\* and could not start it
Run(e, fs, p, w) ==
    LET shell == EvaluateIfSet(e, fs, SHELL, None)
        shellenv == After(shell, EvaluateIfSet(e, fs, SHELLENV, None))
        filter == After(shellenv,
                        IF p.filter /\ SHELLFILTER \in DOMAIN e.variables
                        THEN Evaluate(e, fs, SHELLFILTER, MaxDepth)
                        ELSE Ok(None))
        command == After(filter,
                         Subst(e, fs, p.command, AsFilter(filter.val),
                               MaxDepth))
        quiet == After(command,
                       IF p.quiet = "None"
                       THEN EvaluateIfSet(e, fs, QUIET, None)
                       ELSE Ok(IF p.quiet = "True" THEN Str(<<"1">>)
                               ELSE None))
        printed == IF quiet.err = NoError /\ ~Bool(quiet.val)
                   THEN <<command.val>> ELSE <<>>
        r == After(quiet, Process(p, w))
    IN  [err |-> r.err, arg |-> r.arg, val |-> r.val, gets |-> r.gets,
         calls |-> r.calls, printed |-> printed,
         h_exited |-> quiet.err = NoError /\ w.launch,
         h_failed |-> quiet.err = NoError /\ ~w.launch]

\* An optional argument is the set of the values given for it: none or
\* one.  Arg is the value the function works with.
Arg(given, default) ==
    IF given = {} THEN default ELSE CHOOSE x \in given : TRUE

CaptureStreamAny(capture, r) ==
    IF Has(capture, STDERR) THEN r.stderr ELSE r.stdout

\* result.stderr if capture == self.STDERR else result.stdout
CaptureStream(capture, r) ==
    IF capture = STDERR THEN r.stderr ELSE r.stdout

\* Environment.capture(command, quiet, abort=True, capture=STDOUT,
\* retvals): run, with run's filter left at its default True
Capture(e, fs, p, w) ==
    LET mode == Arg(p.capture, STDOUT)
        r == Run(e, fs,
                 [command |-> p.command, quiet |-> p.quiet,
                  abort |-> Arg(p.abort, TRUE), capture |-> mode,
                  retvals |-> p.retvals, filter |-> TRUE], w)
    IN  IF r.err # NoError THEN r
        ELSE [r EXCEPT !.val = CaptureStream(mode, r.val)]

\* ------------------------------------------------------------------------
\* The client of run: it assigns the shell variables and registers
\* filters, then runs one command
\* ------------------------------------------------------------------------

RunAssignments ==
    {<<SHELL, Str(<<"sh">>)>>, <<SHELLFILTER, Str(<<"f">>)>>,
     <<QUIET, Str(<<"1">>)>>, <<(<<"a">>), Str(<<"x">>)>>}

RunCommands == {Str(<<"c">>), Str(Placeholder(<<"a">>))}

CaptureModes == {NONE, STDOUT, STDERR, STDERROUT, STDOUT + STDERR}

\* The retvals argument of run
RetvalSets == {{0}, {0, 1}, {}}

\* The return codes of the process
ReturnCodes == {0, 1, 2}

RunParams ==
    [command : RunCommands, quiet : {"None", "True", "False"},
     abort : BOOLEAN, capture : CaptureModes, retvals : RetvalSets,
     filter : BOOLEAN]

Worlds == [launch : BOOLEAN, rc : ReturnCodes]

InitRun == InitEnv

\* env.run(p.command, p.quiet, p.abort, p.capture, p.retvals, p.filter)
EnvRun(p, w) ==
    /\ Ready
    /\ result' = Run(Env, filters, p, w)
    /\ SetEnv(AfterGets(Env, result'.gets))
    /\ h_ops' = <<Op("run", <<>>, p.command,
                     [abort |-> p.abort, retvals |-> p.retvals,
                      capture |-> p.capture, quiet |-> p.quiet,
                      filter |-> p.filter, rc |-> w.rc])>>
    /\ UNCHANGED <<filters, text>>
    /\ NotSubst

\* The arguments of capture; abort and capture may be left out
CaptureParams ==
    [command : RunCommands, quiet : {"None", "True"},
     abort : {{}, {TRUE}, {FALSE}},
     capture : {{}} \cup {{m} : m \in CaptureModes}, retvals : RetvalSets]

\* env.capture(p.command, p.quiet, p.abort, p.capture, p.retvals)
EnvCapture(p, w) ==
    /\ Ready
    /\ result' = Capture(Env, filters, p, w)
    /\ SetEnv(AfterGets(Env, result'.gets))
    /\ h_ops' = <<Op("capture", <<>>, p.command,
                     [abort |-> p.abort, retvals |-> p.retvals,
                      capture |-> p.capture, quiet |-> p.quiet,
                      rc |-> w.rc])>>
    /\ UNCHANGED <<filters, text>>
    /\ NotSubst

NextRun ==
    \/ \E a \in RunAssignments : EnvSetText(a[1], a[2])
    \/ \E n \in FilterPool : EnvFilter(n)
    \/ \E p \in (IF Ready THEN RunParams ELSE {}), w \in Worlds :
           EnvRun(p, w)
    \/ \E p \in (IF Ready THEN CaptureParams ELSE {}), w \in Worlds :
           EnvCapture(p, w)

SpecRun == InitRun /\ [][NextRun]_vars

\* ------------------------------------------------------------------------
\* The command-line driver (App) and the script loader
\*
\* A command-line parameter is a string of one-character tokens ("_", "=",
\* ":", letters) and of words that stand for value text.  Variable and task
\* names are such strings.  A path is the sequence of its components; all
\* paths are absolute.
\* ------------------------------------------------------------------------

\* sep in s
Contains(s, sep) == IndexOf(s, sep, 1) # 0

\* s.split(sep, 1), for an s that contains sep
SplitOnce(s, sep) ==
    LET i == IndexOf(s, sep, 1)
    IN  <<SubSeq(s, 1, i - 1), SubSeq(s, i + 1, Len(s))>>

\* A test of the first character only
ReservedPrefix(name) == name # <<>> /\ name[1] = "_"

\* get_tasks_params: name[:1] == "_" or name[-1:] == "_"
Reserved(name) == name # <<>> /\ (name[1] = "_" \/ name[Len(name)] = "_")

\* The errors get_tasks_params raises
ReservedTaskVarError == "Error: Setting special from command line not allowed"

ReservedVarError ==
    "Error: Setting special _VARIABLES_ from command line not allowed"

\* The error a script raises
ScriptError == "ScriptError"

\* get_tasks_params: for taskparam in parts[1:], from parts[i] on
RECURSIVE TaskParams(_, _, _)
TaskParams(parts, i, taskparams) ==
    IF i > Len(parts) THEN [err |-> NoError, params |-> taskparams]
    ELSE IF Contains(parts[i], "=")
    THEN LET nv == SplitOnce(parts[i], "=")
         IN  IF Reserved(nv[1])
             THEN [err |-> ReservedTaskVarError, params |-> taskparams]
             ELSE TaskParams(parts, i + 1,
                             DictSet(taskparams, nv[1], Plain(nv[2])))
    ELSE TaskParams(parts, i + 1, taskparams)

\* App.get_tasks_params: for cmdparam in self.cmdline.params, from
\* cmdparams[i] on, with the tasks and params collected so far
RECURSIVE GetTasksParams(_, _, _, _)
GetTasksParams(cmdparams, i, tasklist, params) ==
    IF i > Len(cmdparams)
    THEN [err |-> NoError, tasks |-> tasklist, params |-> params]
    ELSE IF Contains(cmdparams[i], ":")
    THEN LET parts == Split(cmdparams[i], ":")
             r == TaskParams(parts, 2, EmptyDict)
         IN  IF r.err # NoError
             THEN [err |-> r.err, tasks |-> tasklist, params |-> params]
             ELSE GetTasksParams(cmdparams, i + 1,
                      Append(tasklist, <<parts[1], r.params>>), params)
    ELSE IF Contains(cmdparams[i], "=")
    THEN LET nv == SplitOnce(cmdparams[i], "=")
         IN  IF Reserved(nv[1])
             THEN [err |-> ReservedVarError, tasks |-> tasklist,
                   params |-> params]
             ELSE GetTasksParams(cmdparams, i + 1, tasklist,
                                 DictSet(params, nv[1], Plain(nv[2])))
    ELSE GetTasksParams(cmdparams, i + 1,
                        Append(tasklist, <<cmdparams[i], EmptyDict>>), params)

\* os.path.dirname
Dirname(f) == SubSeq(f, 1, Len(f) - 1)

\* Statements of a script besides SetStmt and TaskStmt: env.include(pattern),
\* inside try/except Error when catch, and raise Error(...)
IncludeStmt(pattern, catch) ==
    [op |-> "include", pattern |-> pattern, catch |-> catch]

RaiseStmt == [op |-> "raise"]

Var(n, v) == DictSet(EmptyDict, n, v)

\* The files of the file system, in sorted order
Files ==
    << <<"t", "T1">>, <<"t", "T2">>, <<"t", "T3">>,
       <<"t", "bad", "r">>,
       <<"t", "inc", "a">>, <<"t", "inc", "b">>,
       <<"t", "inc", "sub", "c">>,
       <<"t", "many", "x">>, <<"t", "many", "y">> >>

\* The task A of the scripts: it depends on D and has a variable of its own
TaskA ==
    TaskStmt(<<"A">>, FALSE, TRUE, << <<"D">> >>,
             Var(<<"k">>, Default(Plain(<<"a">>))),
             Var(<<"i">>, Plain(<<"a">>)))

TaskD ==
    TaskStmt(<<"D">>, FALSE, TRUE, <<>>, EmptyDict, Var(<<"j">>, Delete))

\* The statements of each file
Code(f) ==
    CASE f = <<"t", "T1">> ->
            << SetStmt(<<"k">>, Default(Plain(<<"d">>))),
               IncludeStmt(<<"inc", "a">>, FALSE),
               IncludeStmt(<<"many", "*">>, FALSE),
               SetStmt(<<"j">>, Default(Plain(<<"d">>))),
               TaskA >>
      [] f = <<"t", "T2">> ->
            << IncludeStmt(<<"bad", "r">>, TRUE),
               IncludeStmt(<<"inc", "b">>, FALSE),
               SetStmt(<<"k">>, Default(Plain(<<"d">>))),
               TaskD, TaskA >>
      [] f = <<"t", "T3">> ->
            << IncludeStmt(<<"many", "*">>, TRUE),
               IncludeStmt(<<"bad", "r">>, FALSE),
               TaskA >>
      [] f = <<"t", "bad", "r">> ->
            << SetStmt(<<"i">>, Plain(<<"r">>)), RaiseStmt >>
      [] f = <<"t", "inc", "a">> ->
            << TaskD, IncludeStmt(<<"sub", "c">>, FALSE) >>
      [] f = <<"t", "inc", "b">> ->
            << SetStmt(<<"i">>, Plain(<<"b">>)) >>
      [] f = <<"t", "inc", "sub", "c">> ->
            << SetStmt(<<"i">>, Default(Plain(<<"c">>))) >>
      [] f = <<"t", "many", "x">> ->
            << SetStmt(<<"i">>, Plain(<<"x">>)) >>
      [] f = <<"t", "many", "y">> ->
            << SetStmt(<<"k">>, Default(Plain(<<"y">>))) >>

\* os.path.isfile
IsFile(f) == \E n \in 1..Len(Files) : Files[n] = f

\* sorted(glob.glob(fullglob)): the files of a directory for a last
\* component "*", else the file named, if there is one
Glob(fullglob) ==
    SelectSeq(Files,
        LAMBDA f : IF fullglob[Len(fullglob)] = "*"
                   THEN Dirname(f) = Dirname(fullglob)
                   ELSE f = fullglob)

\* App.find_taskfile: filename in curdir, else, with walk, in the nearest
\* directory above that has it; <<>> stands for None
RECURSIVE FindTaskfile(_, _, _)
FindTaskfile(curdir, filename, walk) ==
    IF IsFile(Append(curdir, filename)) THEN Append(curdir, filename)
    ELSE IF ~walk THEN <<>>
    ELSE IF curdir # <<>> THEN FindTaskfile(Dirname(curdir), filename, walk)
    ELSE <<>>

\* A main that loads the task file before it applies the parameters
MainOrderLoadFirst == <<"find", "parse", "load", "update", "run">>

\* App.main: the order of its steps
MainOrder == <<"find", "parse", "update", "load", "run">>

\* main is about to take the step of this name
AtStep(name) ==
    /\ app.end = "none" /\ ~app.loading
    /\ app.pc <= Len(MainOrder) /\ MainOrder[app.pc] = name

NextStep == [app EXCEPT !.pc = @ + 1]

\* The working directory of the process
Cwd == <<"t">>

\* What the driver's steps leave alone besides the variables they name
NotApp ==
    UNCHANGED <<tasks, frames, ncalls, lastError, h_log, h_task, h_saved,
                h_last, filters, text, result, h_ops, h_via, cmdline>>

\* main: self.find_taskfile(); if self.taskfile is None: env.abort(...)
AppFind ==
    /\ AtStep("find")
    /\ LET f == FindTaskfile(cmdline.dir, cmdline.file, cmdline.walk)
       IN  app' = IF f = <<>> THEN [app EXCEPT !.end = "aborted"]
                  ELSE [NextStep EXCEPT !.taskfile = f]
    /\ EnvUnchanged
    /\ UNCHANGED <<error, script, ip, script_stack, loads>>
    /\ NotApp

\* main: (tasks, params) = self.get_tasks_params()
AppParse ==
    /\ AtStep("parse")
    /\ LET r == GetTasksParams(cmdline.params, 1, <<>>, EmptyDict)
       IN  /\ error' = r.err
           /\ app' = IF r.err # NoError THEN [app EXCEPT !.end = "failed"]
                     ELSE [NextStep EXCEPT !.tasks = r.tasks,
                                           !.params = r.params]
    /\ EnvUnchanged
    /\ UNCHANGED <<script, ip, script_stack, loads>>
    /\ NotApp

\* main: env.update(**params); env["_TOP_"] = ...; env["_ABSTOP_"] = ...;
\* env["_CWD_"] = ...
AppUpdate ==
    /\ AtStep("update")
    /\ LET e1 == Update(Env, app.params)
           e2 == SetItem(e1, <<"_", "TOP", "_">>,
                         Plain(Dirname(app.taskfile)))
           e3 == SetItem(e2, <<"_", "ABSTOP", "_">>,
                         Plain(e2.variables[<<"_", "TOP", "_">>]))
       IN  SetEnv(SetItem(e3, <<"_", "CWD", "_">>, Plain(Cwd)))
    /\ app' = NextStep
    /\ UNCHANGED <<error, script, ip, script_stack, loads>>
    /\ NotApp

\* main: env._load(self.taskfile), up to the exec of its code
AppLoad ==
    /\ AtStep("load")
    /\ app' = [app EXCEPT !.loading = TRUE]
    /\ script' = Code(app.taskfile)
    /\ ip' = 1
    /\ script_stack' = Append(script_stack, app.taskfile)
    /\ EnvUnchanged
    /\ UNCHANGED <<error, loads>>
    /\ NotApp

\* A script is being executed and no exception is in flight
InLoad == app.end = "none" /\ app.loading /\ error = NoError

\* include: the files of the pattern, relative to the directory of the
\* file on top of the script stack
Included(pattern) ==
    Glob(Dirname(script_stack[Len(script_stack)]) \o pattern)

\* env.include(pattern) in a script: _load of the first file found, if any
AppInclude ==
    /\ InLoad /\ Loading /\ script[ip].op = "include"
    /\ LET entries == Included(script[ip].pattern)
       IN  IF entries = <<>>
           THEN /\ ip' = ip + 1
                /\ UNCHANGED <<script, script_stack, loads>>
           ELSE /\ loads' = Append(loads,
                       [script |-> script, ip |-> ip,
                        entries |-> Tail(entries),
                        catch |-> script[ip].catch])
                /\ script' = Code(entries[1])
                /\ ip' = 1
                /\ script_stack' = Append(script_stack, entries[1])
    /\ EnvUnchanged
    /\ UNCHANGED <<error, app>>
    /\ NotApp

\* raise Error(...) in a script
AppRaise ==
    /\ InLoad /\ Loading /\ script[ip].op = "raise"
    /\ error' = ScriptError
    /\ EnvUnchanged
    /\ UNCHANGED <<script, ip, app, script_stack, loads>>
    /\ NotApp

\* _load: the exec of the code is over, self._script_stack.pop(); then
\* include loads its next file or returns to the including script, and
\* main goes on after the load of the task file
AppLoadReturn ==
    /\ InLoad /\ ~Loading
    /\ IF loads = <<>>
       THEN /\ app' = [NextStep EXCEPT !.loading = FALSE]
            /\ script_stack' = Caller(script_stack)
            /\ UNCHANGED <<script, ip, loads>>
       ELSE LET top == loads[Len(loads)]
            IN  IF top.entries # <<>>
                THEN /\ script' = Code(top.entries[1])
                     /\ ip' = 1
                     /\ script_stack' =
                            Append(Caller(script_stack), top.entries[1])
                     /\ loads' = [loads EXCEPT ![Len(loads)].entries =
                                     Tail(@)]
                     /\ app' = app
                ELSE /\ script' = top.script
                     /\ ip' = top.ip + 1
                     /\ script_stack' = Caller(script_stack)
                     /\ loads' = Caller(loads)
                     /\ app' = app
    /\ EnvUnchanged
    /\ UNCHANGED error
    /\ NotApp

\* An exception leaves _load, between exec and self._script_stack.pop():
\* it is caught by the try/except around the include, or leaves the
\* including script too, or leaves main
AppLoadUnwind ==
    /\ app.end = "none" /\ app.loading /\ error # NoError
    /\ IF loads = <<>>
       THEN /\ app' = [app EXCEPT !.end = "failed", !.loading = FALSE]
            /\ UNCHANGED <<error, script, ip, loads>>
       ELSE LET top == loads[Len(loads)]
            IN  /\ script' = top.script
                /\ ip' = IF top.catch THEN top.ip + 1 ELSE top.ip
                /\ error' = IF top.catch THEN NoError ELSE error
                /\ loads' = Caller(loads)
                /\ app' = app
    /\ EnvUnchanged
    /\ UNCHANGED script_stack
    /\ NotApp

\* main: env.calltask(task, **params) for the next of the tasks
AppCall ==
    /\ AtStep("run") /\ frames = <<>> /\ error = NoError
    /\ app.next <= Len(app.tasks)
    /\ frames' = <<Frame("calltask", app.tasks[app.next][1],
                         app.tasks[app.next][2], 1, FALSE)>>
    /\ app' = [app EXCEPT !.next = @ + 1]
    /\ ncalls' = ncalls + 1
    /\ h_log' = <<Event("call", app.tasks[app.next][1], 0, 1,
                        Len(variable_stack))>>
    /\ EnvUnchanged
    /\ UNCHANGED <<tasks, error, script, ip, lastError, h_task, h_saved,
                   h_last, filters, text, result, h_ops, h_via, cmdline,
                   script_stack, loads>>

\* main: every task was called, main returns
AppDone ==
    /\ AtStep("run") /\ frames = <<>> /\ error = NoError
    /\ app.next > Len(app.tasks)
    /\ app' = [app EXCEPT !.end = "done"]
    /\ EnvUnchanged
    /\ UNCHANGED <<error, script, ip, script_stack, loads>>
    /\ NotApp

\* main: the exception of a task leaves main
AppFail ==
    /\ AtStep("run") /\ frames = <<>> /\ error # NoError
    /\ app' = [app EXCEPT !.end = "failed"]
    /\ EnvUnchanged
    /\ UNCHANGED <<error, script, ip, script_stack, loads>>
    /\ NotApp

\* The longest list of parameters and the longest parameter of the
\* command lines tried
MaxParams == 2

MaxParamLen == 4

ParamTokens == {"_", "=", ":", "k", "A"}

\* The parameters of at most n tokens
ParamStrings(n) == UNION {[1..k -> ParamTokens] : k \in 1..n}

\* Parameters of each form, with and without reserved names
ParamPool ==
    { <<"A">>, <<"D">>,
      <<"k", "=", "v">>, <<"j", "=", "w">>,
      <<"_", "k", "=", "v">>, <<"k", "_", "=", "v">>,
      <<"A", ":", "k", "=", "v">>,
      <<"A", ":", "i", "=", "v", ":", "k", "_", "=", "w">>,
      <<"A", ":", "_", "j", "=", "v">>,
      <<"_", "k", "=", "v", ":", "w">> }

\* The lists of at most n parameters of the pool
ParamLists(n) == UNION {[1..k -> ParamPool] : k \in 0..n}

\* The command lines: any list of parameters of the pool or any one
\* parameter for the first task file, and a few parameter lists for every
\* file name, directory and walk option
CmdLines ==
    [params : ParamLists(MaxParams)
                 \cup {<<p>> : p \in ParamStrings(MaxParamLen)},
     file : {"T1"}, dir : {<<"t">>}, walk : {FALSE}]
    \cup
    [params : {<<>>, << <<"k", "=", "v">>, <<"A", ":", "j", "=", "w">> >>},
     file : {"T1", "T2", "T3", "T0"},
     dir : {<<"t">>, <<"t", "many">>}, walk : BOOLEAN]

\* App.__init__ and parse_args
InitApp ==
    /\ tasks = EmptyDict
    /\ variables = EmptyDict
    /\ variables_default = {}
    /\ var_desc = EmptyDict
    /\ variable_stack = <<>>
    /\ frames = <<>>
    /\ error = NoError
    /\ script = <<>>
    /\ ip = 1
    /\ ncalls = 0
    /\ lastError = NoError
    /\ h_log = <<>>
    /\ h_task = EmptyDict
    /\ h_saved = <<>>
    /\ h_last = NoPop
    /\ filters = {}
    /\ text = <<>>
    /\ result = NoResult
    /\ h_ops = <<>>
    /\ h_via = NoVia
    /\ cmdline \in CmdLines
    /\ app = NoApp
    /\ script_stack = <<>>
    /\ loads = <<>>

NextApp ==
    \/ AppFind
    \/ AppParse
    \/ AppUpdate
    \/ AppLoad
    \/ InLoad /\ ScriptSet
    \/ InLoad /\ EnvTask
    \/ AppInclude
    \/ AppRaise
    \/ AppLoadReturn
    \/ AppLoadUnwind
    \/ AppCall
    \/ CallTaskUnknown
    \/ CallTaskEntry
    \/ CallTaskReturn
    \/ ExecuteSkip
    \/ ExecuteEnter
    \/ ExecuteDepends
    \/ \E raises \in BOOLEAN : ExecuteBody(raises)
    \/ ExecuteExit
    \/ ExecuteUnwind
    \/ CallTaskUnwind
    \/ AppDone
    \/ AppFail

SpecApp == InitApp /\ [][NextApp]_vars

\* Sanity of the model's own bookkeeping
TypeOK ==
    /\ Len(frames) <= MaxFrames
    /\ ncalls \in 0..MaxCalls
    /\ variables_default \subseteq {"k1", "k2"}
    /\ DOMAIN variables \subseteq {"k1", "k2"}

\* ------------------------------------------------------------------------
\* Properties
\* ------------------------------------------------------------------------

\* The client is between two calls
Idle == frames = <<>> /\ error = NoError

\* C1: whenever a calltask or execute call ends, by returning or by an
\* exception (of its body, of a dependency, of the recursion limit), the
\* variable mapping and the depth of the scope stack are what they were
\* when the call began.
TaskScopeRestored ==
    [][Len(frames') < Len(frames) =>
          /\ variables' = Top.h_variables
          /\ Len(variable_stack') = Top.h_depth]_vars

\* C1 witness: a body that ran two scopes deep raised, and the exception
\* reached the client.
TaskScopeRestoredWitness ==
    /\ Idle /\ lastError = BodyError
    /\ \E p \in 1..Len(h_log) : h_log[p].ev = "body" /\ h_log[p].sd >= 2

\* C2: every pop restores the mapping as it was before the matching (the
\* most recent open) push, whatever the push and the assignments made in
\* the scope changed.
ScopeIsolation ==
    [][Len(variable_stack') < Len(variable_stack) =>
          variables' = h_saved[Len(h_saved)]]_vars

\* C2 witness: a nested push with variables, an assignment that changed
\* the mapping, then the pop; an outer scope is still open.
ScopeIsolationWitness ==
    h_last.pop = "nested" /\ variable_stack # <<>>

\* C4: a step of execute on a once-task whose called flag is set returns
\* at once: no scope is pushed, no variable, marker or task changes, no
\* dependency is invoked and no body is run.
OnceSkipIsNoOp ==
    [][(InExecute /\ Top.pc = "enter" /\ Self.once /\ Self.called) =>
          /\ frames' = Returned(frames)
          /\ UNCHANGED <<variables, variables_default, var_desc,
                         variable_stack, tasks, error, h_task>>]_vars

\* C4 witness: an execute was skipped after the task's body had run, while
\* the task has dependencies.
OnceSkipIsNoOpWitness ==
    \E p \in 1..Len(h_log) :
        /\ h_log[p].ev = "skip"
        /\ tasks[h_log[p].name][h_log[p].i].depends # <<>>
        /\ h_task[h_log[p].name][h_log[p].i].runs = 1

\* C7: registering a task under a name that has an entry, without extend,
\* raises the task-already-defined error and leaves the registry as it was.
DuplicateRefused ==
    [][(Loading /\ script[ip].op = "task" /\ ~script[ip].extend
            /\ script[ip].name \in DOMAIN tasks
            /\ Len(tasks[script[ip].name]) >= 1) =>
          /\ tasks' = tasks
          /\ lastError' = TaskDefinedError]_vars

\* C7 witness: the script's second registration of A was refused.
DuplicateRefusedWitness ==
    /\ lastError = TaskDefinedError
    /\ ip = 3 /\ Len(tasks["A"]) = 1

\* C9: calltask on a name without registration raises the no-such-task
\* error and ends there: nothing is pushed, no variable or marker changes,
\* no body is run.
UnknownTaskFails ==
    [][(InCallTask /\ Top.name \notin DOMAIN tasks) =>
          /\ error' = NoSuchTaskError
          /\ frames' = Caller(frames)
          /\ UNCHANGED <<variables, variables_default, var_desc,
                         variable_stack, tasks, h_task, h_log>>]_vars

\* C9 witness: the client's call of an unregistered name failed; its log
\* holds the call alone.
UnknownTaskFailsWitness ==
    /\ Idle /\ lastError = NoSuchTaskError
    /\ Len(h_log) = 1 /\ h_log[1].name \notin DOMAIN tasks

\* The log positions, in order, of the calltask events directly below the
\* execute call that ran its body at position p: they lie after the
\* latest "enter" event of that call's depth.
EnterOf(p) ==
    CHOOSE q \in 1..(p - 1) :
        /\ h_log[q].ev = "enter" /\ h_log[q].fd = h_log[p].fd
        /\ \A r \in (q + 1)..(p - 1) :
              ~(h_log[r].ev = "enter" /\ h_log[r].fd = h_log[p].fd)

DependsEvents(p) ==
    {x \in (EnterOf(p) + 1)..(p - 1) : h_log[x].fd = h_log[p].fd + 1}

Nth(S, j) == CHOOSE x \in S : Cardinality({y \in S : y < x}) = j - 1

\* C5: when a body starts, the calls made for its task's dependencies since
\* the task was entered are exactly call d1, return d1, call d2, return d2,
\* ... in the listed order, and between the call and the return of each
\* dependency every definition registered under its name was left normally
\* or skipped.
DependencyOrdering ==
    \A p \in 1..Len(h_log) :
        h_log[p].ev = "body" =>
            LET deps == tasks[h_log[p].name][h_log[p].i].depends
                S == DependsEvents(p)
            IN  /\ Cardinality(S) = 2 * Len(deps)
                /\ \A j \in 1..Len(deps) :
                      LET c == Nth(S, 2 * j - 1)
                          r == Nth(S, 2 * j)
                      IN  /\ h_log[c].ev = "call" /\ h_log[c].name = deps[j]
                          /\ h_log[r].ev = "ret" /\ h_log[r].name = deps[j]
                          /\ \A i \in 1..Len(Entries(tasks, deps[j])) :
                                \E x \in (c + 1)..(r - 1) :
                                    /\ h_log[x].ev \in {"exit", "skip"}
                                    /\ h_log[x].name = deps[j]
                                    /\ h_log[x].i = i
                                    /\ h_log[x].fd = h_log[p].fd + 2

\* C5 witness: the body of a task with two dependencies, the first of which
\* has a dependency of its own, has started.
DependencyOrderingWitness ==
    \E p \in 1..Len(h_log) :
        /\ h_log[p].ev = "body"
        /\ Len(tasks[h_log[p].name][h_log[p].i].depends) = 2
        /\ tasks[tasks[h_log[p].name][h_log[p].i].depends[1]][1].depends
               # <<>>

RECURSIVE Supplied(_)
\* The value a caller supplies with an argument: the value inside a Default
\* or Description, or the argument itself
Supplied(x) ==
    IF x.kind \in {"Default", "Description"} THEN Supplied(x.value) ELSE x

\* An execute call is about to run its body: it is inside its with block,
\* its variables are merged and its dependencies have returned
BodyNext == InExecute /\ Top.pc = "with" /\ Top.di > Len(Self.depends)

\* C6 as claimed: when the body is about to run, every name that is both
\* among the task's variables and among the caller's has the value the
\* caller supplied.
CallerAlwaysWins ==
    BodyNext =>
        \A k \in (DOMAIN Self.vars) \cap (DOMAIN Top.vars) :
            Supplied(Top.vars[k]).kind = "Plain" =>
                /\ k \in DOMAIN variables
                /\ variables[k] = Supplied(Top.vars[k]).value

\* C6 amended: when the body is about to run, every name that is both
\* among the task's variables and among the caller's, and for which the
\* caller passed a plain value, has the caller's value.
PlainCallerWins ==
    BodyNext =>
        \A k \in (DOMAIN Self.vars) \cap (DOMAIN Top.vars) :
            Top.vars[k].kind = "Plain" =>
                /\ k \in DOMAIN variables
                /\ variables[k] = Top.vars[k].value

\* C6 witness: the body is about to run and a name has a plain task value
\* and a different plain value from the caller.
PlainCallerWinsWitness ==
    /\ BodyNext
    /\ \E k \in (DOMAIN Self.vars) \cap (DOMAIN Top.vars) :
          /\ Top.vars[k].kind = "Plain" /\ Self.vars[k].kind = "Plain"
          /\ Top.vars[k].value # Self.vars[k].value

\* The definitions of a once-task that had exactly two execute calls, with
\* different extra variables, both over
TwiceInvoked ==
    {d \in UNION {{<<n, i>> : i \in 1..Len(tasks[n])} : n \in DOMAIN tasks} :
        /\ tasks[d[1]][d[2]].once
        /\ h_task[d[1]][d[2]].ninv = 2
        /\ h_task[d[1]][d[2]].first # h_task[d[1]][d[2]].last}

\* The body ran once, and saw the plain extra variables of the first call
RanOnceAsFirst(h) ==
    /\ h.runs = 1
    /\ \A k \in DOMAIN h.first :
          h.first[k].kind = "Plain" =>
              k \in DOMAIN h.view /\ h.view[k] = h.first[k].value

TopName == h_log[1].name

TopEntries == Entries(tasks, TopName)

\* Entry i of the called name was dealt with at log position p: skipped as
\* a once-task already called, or its body run one scope above the call's
Done(p, i) ==
    /\ h_log[p].fd = 2 /\ h_log[p].name = TopName /\ h_log[p].i = i
    /\ \/ h_log[p].ev = "skip" /\ Skips(tasks[TopName][i])
       \/ h_log[p].ev = "body" /\ h_log[p].sd = h_log[1].sd + 1

\* Every entry was dealt with once, in registration order, and the scopes
\* are closed
AllDoneInOrder ==
    /\ Len(variable_stack) = h_log[1].sd
    /\ \A i \in 1..Len(TopEntries) :
          /\ Cardinality({p \in 1..Len(h_log) : Done(p, i)}) = 1
          /\ i > 1 => \E p, q \in 1..Len(h_log) :
                         q < p /\ Done(q, i - 1) /\ Done(p, i)

\* A call of a name with several definitions is over
ExtendedCallOver == Idle /\ h_log # <<>> /\ Len(TopEntries) >= 2

IsDiamond ==
    /\ {"A", "B", "C", "D"} \subseteq DOMAIN tasks
    /\ \A n \in {"A", "B", "C", "D"} : Len(tasks[n]) = 1
    /\ tasks["A"][1].depends = <<"B", "C">>
    /\ tasks["B"][1].depends = <<"D">>
    /\ tasks["C"][1].depends = <<"D">>
    /\ tasks["D"][1].depends = <<>>

\* The client's single call, of A in the diamond, is over
DiamondCallOver ==
    IsDiamond /\ Idle /\ ncalls = 1 /\ TopName = "A"

\* D's body ran twice, or once when D is a once-task
DiamondRuns ==
    h_task["D"][1].runs = IF tasks["D"][1].once THEN 1 ELSE 2

DependencyGetsNoExtraVars ==
    \A j \in 2..Len(frames) :
        (frames[j].fn = "calltask" \/ j > 2) => frames[j].vars = EmptyDict

\* The body of a dependency is about to run inside a top-level call that
\* was given extra variables.
DependencyGetsNoExtraVarsWitness ==
    /\ Len(frames) >= 4
    /\ frames[1].vars # EmptyDict /\ frames[2].vars # EmptyDict
    /\ frames[3].fn = "calltask" /\ frames[4].fn = "execute"
    /\ Len(frames) = 4 /\ BodyNext

\* The recorded client's latest operation and the one before it
LastOp == h_ops[Len(h_ops)]

PrevOp == h_ops[Len(h_ops) - 1]

\* This step is the recorded client's assignment of a value of that kind
SetStep(kind) ==
    /\ Len(h_ops') = Len(h_ops) + 1
    /\ h_ops'[Len(h_ops')].op = "set"
    /\ h_ops'[Len(h_ops')].value.kind = kind

\* C12: a Default assignment followed by a plain assignment of y to the
\* same name leaves the name with the value y, and a plain assignment of y
\* followed by a Default assignment to the same name leaves it with y too.
DefaultVsSet ==
    (/\ Len(h_ops) >= 2
     /\ LastOp.op = "set" /\ PrevOp.op = "set"
     /\ LastOp.name = PrevOp.name)
        => /\ (PrevOp.value.kind = "Default" /\ LastOp.value.kind = "Plain")
               => /\ LastOp.name \in DOMAIN variables
                  /\ variables[LastOp.name] = LastOp.value.value
           /\ (PrevOp.value.kind = "Plain" /\ LastOp.value.kind = "Default")
               => /\ LastOp.name \in DOMAIN variables
                  /\ variables[LastOp.name] = PrevOp.value.value

\* A name was given a default, then a plain value, then a default again
DefaultVsSetWitness ==
    /\ Len(h_ops) >= 3
    /\ \A j \in Len(h_ops) - 2 .. Len(h_ops) :
           h_ops[j].op = "set" /\ h_ops[j].name = "k1"
    /\ h_ops[Len(h_ops) - 2].value = Default(Plain(3))
    /\ PrevOp.value = Plain(1)
    /\ LastOp.value = Default(Plain(3))
    /\ variables["k1"] = 1

\* C13: assigning Default(x) to a name gives the name the value x when the
\* name has no value or its current value was last assigned through a
\* Default, and has no effect otherwise (its value was assigned plainly).
DefaultAppliesIffDefaulted ==
    [][SetStep("Default") /\ h_ops'[Len(h_ops')].value.value.kind = "Plain"
          => LET name == h_ops'[Len(h_ops')].name
                 x == h_ops'[Len(h_ops')].value.value.value
             IN  IF \/ name \notin DOMAIN variables
                    \/ /\ name \in DOMAIN h_via.cur
                       /\ h_via.cur[name] = "default"
                 THEN name \in DOMAIN variables' /\ variables'[name] = x
                 ELSE variables' = variables]_vars

\* C14: assigning Delete to a name leaves the name without value and
\* without marker, and when the name had no value the assignment changes
\* nothing of the environment.
DeleteRemoves ==
    [][SetStep("Delete")
          => LET name == h_ops'[Len(h_ops')].name
             IN  /\ name \notin DOMAIN variables'
                 /\ name \notin variables_default'
                 /\ name \notin DOMAIN variables => EnvUnchanged]_vars

\* C15: no name carries the is-default marker while it has no value.
MarkerImpliesValue == variables_default \subseteq DOMAIN variables

\* This step is the client's call of get or evaluate
LookupStep ==
    /\ h_ops = <<>> /\ h_ops' # <<>>
    /\ h_ops'[1].op \in {"get", "evaluate"}

\* C16: get and evaluate of a name without value raise VariableError for
\* that name and leave the mapping, the markers, the descriptions and the
\* scope stack as they were; so does evaluate of a variable whose value is
\* a placeholder for a name without value.
UnsetLookupFails ==
    [][LookupStep
          => LET name == h_ops'[1].name
             IN  /\ name \notin DOMAIN variables
                     => /\ result'.err = VariableError
                        /\ result'.arg = name
                        /\ EnvUnchanged
                 /\ \A m \in SubstNames :
                        (/\ h_ops'[1].op = "evaluate"
                         /\ name \in DOMAIN variables
                         /\ variables[name] = Str(Placeholder(m))
                         /\ m \notin DOMAIN variables)
                            => /\ result'.err = VariableError
                               /\ result'.arg = m
                               /\ EnvUnchanged]_vars

\* evaluate of a variable that refers to a name without value has failed
UnsetLookupFailsWitness ==
    /\ h_ops = <<Op("evaluate", <<"a">>, Str(<<>>), EmptyDict)>>
    /\ <<"a">> \in DOMAIN variables
    /\ variables[<<"a">>] = Str(Placeholder(<<"b">>))
    /\ <<"b">> \notin DOMAIN variables
    /\ result.err = VariableError /\ result.arg = <<"b">>

\* C17: subst of the string escape returned for s returns s, whatever the
\* variables, the registered filters and the filter argument are, without
\* looking up a variable and without calling a filter.
EscapeRoundTrip ==
    (Len(h_ops) = 2 /\ h_ops[1].op = "escape" /\ h_ops[2].op = "subst")
        => /\ result.err = NoError
           /\ result.val = h_ops[1].value
           /\ result.gets = <<>>
           /\ result.calls = <<>>

\* The escaped string was a placeholder for a variable that has a value,
\* and subst was given registered filters
EscapeRoundTripWitness ==
    /\ Len(h_ops) = 2
    /\ h_ops[1] = Op("escape", <<>>, Str(Placeholder(<<"a">>)), EmptyDict)
    /\ h_ops[2].op = "subst" /\ h_ops[2].vars.filter # <<>>
    /\ <<"a">> \in DOMAIN variables
    /\ filters = FilterPool
    /\ result.val = Str(Placeholder(<<"a">>))

\* The latest call was subst of a string that is one placeholder
OnePlaceholder ==
    /\ h_ops # <<>> /\ LastOp.op = "subst" /\ LastOp.value.t = "str"
    /\ LET s == LastOp.value.s
       IN  /\ Len(s) >= 3 /\ s[1] = "$" /\ s[2] = "("
           /\ IndexOf(s, ")", 3) = Len(s)

Body == SubSeq(LastOp.value.s, 3, Len(LastOp.value.s) - 1)

\* The filters the placeholder must get: those it lists when its body
\* holds a "|", those of the filter argument otherwise
Expected ==
    IF IndexOf(Body, "|", 1) # 0
    THEN SelectSeq(Tail(Split(Body, "|")), NonEmpty)
    ELSE IF LastOp.vars.filter = <<>> THEN <<>>
    ELSE Split(LastOp.vars.filter, "|")

RECURSIVE Filtered(_, _)
Filtered(names, value) ==
    IF names = <<>> THEN value
    ELSE Filtered(Tail(names), FilterFn(Head(names), value))

\* C18: for a placeholder whose variable evaluates, the filters called are
\* exactly the non-empty ones its body lists, in order, when the body holds
\* a "|" (none for $(NAME|), whatever the filter argument is), and exactly
\* those of the filter argument, in order, when it holds none; the call
\* stops with an error at the first of them that is not registered.
FilterPrecedence ==
    OnePlaceholder
        => LET ev == Evaluate(Env, filters, Split(Body, "|")[1], MaxDepth)
               want == Expected
               bad == {j \in 1..Len(want) : want[j] \notin filters}
           IN  ev.err = NoError
                   => IF bad = {}
                      THEN /\ result.err = NoError
                           /\ result.calls = ev.calls \o want
                           /\ result.val = Filtered(want, ev.val)
                      ELSE LET j == CHOOSE x \in bad :
                                       \A y \in bad : x <= y
                           IN  /\ result.err = NoSuchFilterError
                               /\ result.arg = want[j]
                               /\ result.calls =
                                      ev.calls \o SubSeq(want, 1, j)

\* $(a|) was substituted with a filter argument naming registered filters
FilterPrecedenceWitness ==
    /\ h_ops = <<Op("subst", <<>>, Str(Placeholder(<<"a", "|">>)),
                   [filter |-> <<"f", "|", "g">>])>>
    /\ filters = FilterPool
    /\ <<"a">> \in DOMAIN variables /\ variables[<<"a">>] = Str(<<"x">>)
    /\ result.val = Str(<<"x">>) /\ result.calls = <<>>

\* C19: subst of a Literal returns the wrapped string as it is, with no
\* lookup and no filter; subst of $(NAME) where NAME holds a Literal looks
\* up NAME only and, without filters, returns the wrapped string as it is;
\* where NAME holds the plain string $(M) and M a string without "$", it
\* returns the string of M.
LiteralVerbatim ==
    (h_ops # <<>> /\ LastOp.op = "subst")
        => /\ LastOp.value.t = "Literal"
               => result = Ok(Str(LastOp.value.s))
           /\ \A n \in SubstNames :
                  (LastOp.value = Str(Placeholder(n))
                   /\ n \in DOMAIN variables)
                      => /\ variables[n].t = "Literal"
                             => /\ result.gets = <<n>>
                                /\ LastOp.vars.filter = <<>>
                                       => /\ result.err = NoError
                                          /\ result.val = Str(variables[n].s)
                         /\ \A m \in SubstNames :
                                (/\ variables[n] = Str(Placeholder(m))
                                 /\ m \in DOMAIN variables
                                 /\ variables[m].t = "str"
                                 /\ IndexOf(variables[m].s, "$", 1) = 0
                                 /\ LastOp.vars.filter = <<>>)
                                    => /\ result.err = NoError
                                       /\ result.val = variables[m]
                                       /\ result.gets = <<n, m>>

\* $(a) was substituted where a holds Literal("$(b)") and b has a value
LiteralVerbatimWitness ==
    /\ h_ops = <<Op("subst", <<>>, Str(Placeholder(<<"a">>)),
                   [filter |-> <<>>])>>
    /\ <<"a">> \in DOMAIN variables
    /\ variables[<<"a">>] = Literal(Placeholder(<<"b">>))
    /\ <<"b">> \in DOMAIN variables
    /\ result.val = Str(Placeholder(<<"b">>))

\* C20: once the process has exited with return code r, run raises
\* CommandError when r is not among retvals and abort is true, and in
\* every other case returns a RunResult with return code r and the success
\* flag (r among retvals); it raises CommandError in no other case.
RunAbortPolicy ==
    (h_ops # <<>> /\ LastOp.op = "run")
        => LET a == LastOp.vars
           IN  /\ result.err = CommandError
                   => result.h_exited /\ a.rc \notin a.retvals /\ a.abort
               /\ result.h_exited
                   => IF a.rc \notin a.retvals /\ a.abort
                      THEN result.err = CommandError
                      ELSE /\ result.err = NoError
                           /\ result.val.t = "RunResult"
                           /\ result.val.retcode = a.rc
                           /\ result.val.result = (a.rc \in a.retvals)

\* run was called without abort and the process exited with a code
\* outside retvals
RunAbortPolicyWitness ==
    /\ h_ops # <<>> /\ LastOp.op = "run"
    /\ ~LastOp.vars.abort
    /\ LastOp.vars.rc = 1 /\ LastOp.vars.retvals = {0}
    /\ result.h_exited
    /\ result.err = NoError
    /\ result.val.retcode = 1 /\ ~result.val.result

\* The text capture must return for a capture mode: the captured standard
\* error for STDERR, the captured standard output otherwise (None when
\* the mode captures none)
Requested(mode) ==
    IF mode = STDERR THEN Str(ProcessErr)
    ELSE IF Has(mode, STDOUT) THEN Str(ProcessOut)
    ELSE IF Has(mode, STDERROUT)
    THEN IF Has(mode, STDERR) THEN Str(ProcessOut)
         ELSE Str(ProcessOut \o ProcessErr)
    ELSE None

\* C21 as claimed: capture always runs with abort enabled: once the
\* process has exited, it raises CommandError when the return code is not
\* among retvals and returns the requested stream's text otherwise.
CaptureAlwaysAborts ==
    (h_ops # <<>> /\ LastOp.op = "capture" /\ result.h_exited)
        => LET a == LastOp.vars
           IN  IF a.rc \notin a.retvals
               THEN result.err = CommandError
               ELSE /\ result.err = NoError
                    /\ result.val = Requested(Arg(a.capture, STDOUT))

\* C21 amended: capture runs with abort enabled unless the caller passes
\* abort=False: once the process has exited, it raises CommandError when
\* the return code is not among retvals and abort was not given as False,
\* and returns the requested stream's text otherwise.
CaptureAbortsUnlessDisabled ==
    (h_ops # <<>> /\ LastOp.op = "capture" /\ result.h_exited)
        => LET a == LastOp.vars
           IN  IF a.rc \notin a.retvals /\ a.abort # {FALSE}
               THEN result.err = CommandError
               ELSE /\ result.err = NoError
                    /\ result.val = Requested(Arg(a.capture, STDOUT))

\* capture was called for both streams without the abort argument and
\* returned the standard output
CaptureAbortsUnlessDisabledWitness ==
    /\ h_ops # <<>> /\ LastOp.op = "capture" /\ result.h_exited
    /\ LastOp.vars.abort = {}
    /\ LastOp.vars.capture = {STDOUT + STDERR}
    /\ result.err = NoError
    /\ result.val = Str(ProcessOut)

\* C22: when the shell process cannot be started, run and capture end
\* with ShellError, which is not the CommandError of an unexpected return
\* code.
LaunchFailureIsShellError ==
    (h_ops # <<>> /\ LastOp.op \in {"run", "capture"} /\ result.h_failed)
        => result.err = ShellError /\ ShellError # CommandError

\* C27: pop restores the is-default markers with the values: after a pop
\* the marker set is the one the environment had before the matching push.
PopRestoresMarkers ==
    [][(Len(h_ops') = Len(h_ops) + 1 /\ h_ops'[Len(h_ops')].op = "pop")
          => variables_default' = h_via.marks[Len(h_via.marks)]]_vars

\* ------------------------------------------------------------------------
\* Cyclic dependencies
\* ------------------------------------------------------------------------

\* A and D were registered once each and depend on each other
IsCyclic ==
    /\ {"A", "D"} \subseteq DOMAIN tasks
    /\ Len(tasks["A"]) = 1 /\ Len(tasks["D"]) = 1
    /\ tasks["A"][1].depends = <<"D">>
    /\ tasks["D"][1].depends = <<"A">>

\* The client called a task of the cycle
CycleCalled == IsCyclic /\ h_log # <<>> /\ TopName \in {"A", "D"}

\* The scopes opened by the execute calls on the call stack
OpenScopes ==
    Cardinality({j \in 1..Len(frames) :
                    frames[j].fn = "execute" /\ frames[j].pc # "enter"})

\* C25: once a task of a dependency cycle was called, no body of a task on
\* the cycle ever runs and no task of it is marked as called, also when
\* they are once-tasks; while the call runs no nested call has returned
\* and every execute on the call stack holds one scope of the scope
\* stack, so that the stack grows by one scope for each task entered; and
\* the call ends in no other way than by the error of the exhausted call
\* stack.
CycleNeverCompletes ==
    CycleCalled =>
        /\ \A n \in {"A", "D"} :
              h_task[n][1].runs = 0 /\ ~tasks[n][1].called
        /\ Running =>
              /\ Len(variable_stack) = OpenScopes
              /\ \A j \in 1..(Len(frames) - 1) :
                    frames[j].i = 1 /\ frames[j].di = 1
                    /\ frames[j].pc \in {"loop", "with"}
        /\ error \in {NoError, RecursionError}
        /\ error = RecursionError /\ Len(frames) = MaxFrames =>
              Len(variable_stack) = MaxFrames \div 2
        /\ Idle => lastError = RecursionError

\* The call stack is exhausted in a cycle of once-tasks, with one scope
\* open for each of the tasks entered
CycleNeverCompletesWitness ==
    /\ CycleCalled /\ tasks["A"][1].once /\ tasks["D"][1].once
    /\ error = RecursionError /\ Len(frames) = MaxFrames
    /\ Len(variable_stack) = MaxFrames \div 2
    /\ Len(variable_stack) >= 3

\* ------------------------------------------------------------------------
\* The called flag
\* ------------------------------------------------------------------------

\* The definitions registered
Definitions ==
    UNION {{<<n, i>> : i \in 1..Len(tasks[n])} : n \in DOMAIN tasks}

\* The step sets the called flag of the definition the innermost execute
\* runs on, at the normal return of its body, and changes no other task
MarksCalled ==
    /\ InExecute /\ Top.pc = "with" /\ DependsDone(Self, Top.di)
    /\ error' = NoError
    /\ frames' = [frames EXCEPT ![Len(frames)].pc = "exit"]
    /\ tasks' = [tasks EXCEPT ![Top.name][Top.i].called = TRUE]

\* The steps of an invocation and the called flags
CalledStep ==
    /\ (~Loading /\ tasks' # tasks) => MarksCalled
    /\ error' # NoError => tasks' = tasks
    /\ (error # NoError /\ frames # <<>> /\ Top.fn = "execute") =>
          /\ Top.pc # "exit"
          /\ Len(variable_stack') = Top.h_depth

\* The client's second call invoked once-definition d, whose first
\* invocation had ended with an exception, and returned normally
FailedOnceRetried(d) ==
    /\ tasks[d[1]][d[2]].once
    /\ h_task[d[1]][d[2]].firstEnd = "raised"
    /\ h_task[d[1]][d[2]].ninv = 2
    /\ Idle /\ ncalls = 2 /\ lastError = NoError /\ TopName = d[1]

\* In the latest call d was entered, each of its dependencies was called
\* from it, and its body ran after them
RanAgain(d) ==
    \E p \in 1..Len(h_log), q \in 1..Len(h_log) :
        /\ p < q
        /\ h_log[p] = Event("enter", d[1], d[2], 2, h_log[1].sd + 1)
        /\ h_log[q] = Event("body", d[1], d[2], 2, h_log[1].sd + 1)
        /\ \A k \in 1..Len(tasks[d[1]][d[2]].depends) :
              \E x \in (p + 1)..(q - 1) :
                  h_log[x] = Event("call", tasks[d[1]][d[2]].depends[k], 0, 3,
                                   h_log[1].sd + 1)

\* C29: the called flag of a definition is set only by the step in which
\* its body returns normally; a step that raises or passes on an exception
\* (of the body, of a dependency) changes no flag, and the execute it
\* leaves has not set its flag and has its scope popped; so a once-task
\* whose first invocation failed is, when invoked again, entered again,
\* with its dependencies called and its body run.
CalledOnlyAfterBody ==
    /\ [][CalledStep]_vars
    /\ [](\A d \in Definitions : FailedOnceRetried(d) => RanAgain(d))

\* A once-task with dependencies failed in the first call and ran again
\* in the second
CalledOnlyAfterBodyWitness ==
    \E d \in Definitions :
        /\ FailedOnceRetried(d) /\ RanAgain(d)
        /\ tasks[d[1]][d[2]].depends # <<>>
        /\ tasks[d[1]][d[2]].called

\* An execute of definition i of name n is at its first statement
AtEntry(n, i) == InExecute /\ Top.pc = "enter" /\ Top.name = n /\ Top.i = i

\* The first call of name n left its once-definition i completed and a
\* later definition j raised; the second call reached definition i
CompletedThenRaised(n, i, j) ==
    /\ i < j /\ ncalls = 2 /\ Idle /\ TopName = n
    /\ tasks[n][i].once
    /\ h_task[n][i].firstEnd = "returned" /\ h_task[n][i].ninv = 2
    /\ h_task[n][j].firstEnd = "raised"

\* The events of definition i of name n in the latest call
EventsOf(n, i) ==
    {h_log[p].ev : p \in {q \in 1..Len(h_log) :
         h_log[q].name = n /\ h_log[q].i = i /\ h_log[q].fd = 2}}

\* C28: the called flag belongs to the definition.  An execute is skipped
\* exactly when its own definition is a once-definition whose flag is set,
\* whatever the flags of the other definitions under the name; a flag is
\* set only on a definition whose own body has run; and when the first
\* call left an earlier once-definition completed and a later definition
\* raised, the second call of the name skips the completed definition and
\* enters the one that raised, whose flag was still false.
CalledPerDefinition ==
    /\ [][\A n \in DOMAIN tasks : \A i \in 1..Len(tasks[n]) :
             AtEntry(n, i) =>
                 /\ (tasks[n][i].once /\ tasks[n][i].called) =>
                        frames' = Returned(frames) /\ tasks' = tasks
                 /\ ~(tasks[n][i].once /\ tasks[n][i].called) =>
                        /\ Len(frames') = Len(frames)
                        /\ frames'[Len(frames')].pc = "with"]_vars
    /\ [](\A d \in Definitions :
             tasks[d[1]][d[2]].called => h_task[d[1]][d[2]].runs >= 1)
    /\ [](\A n \in DOMAIN tasks : \A i, j \in 1..Len(tasks[n]) :
             CompletedThenRaised(n, i, j) =>
                 /\ EventsOf(n, i) = {"skip"}
                 /\ "enter" \in EventsOf(n, j)
                 /\ h_task[n][i].runs = 1)

\* The second call of an extended name skipped its completed first
\* definition and ran the body of the second one again, which had raised
CalledPerDefinitionWitness ==
    /\ DOMAIN tasks # {} /\ "A" \in DOMAIN tasks /\ Len(tasks["A"]) = 2
    /\ CompletedThenRaised("A", 1, 2)
    /\ EventsOf("A", 1) = {"skip"}
    /\ "body" \in EventsOf("A", 2)
    /\ tasks["A"][2].once /\ h_task["A"][2].runs = 2

\* ------------------------------------------------------------------------
\* What a dependency sees of its invoker
\* ------------------------------------------------------------------------

\* The execute calls on the call stack that were started for a dependency
\* and have merged their variables
DependencyFrames ==
    {j \in 4..Len(frames) :
        frames[j].fn = "execute" /\ frames[j].pc # "enter"}

\* Mapping m is mapping base overridden by the plain values of vars, and
\* differs from base in no name that vars does not give
Overrides(m, base, xvars) ==
    /\ \A k \in DOMAIN xvars :
          xvars[k].kind = "Plain" => k \in DOMAIN m /\ m[k] = xvars[k].value
    /\ \A k \in (DOMAIN m \cup DOMAIN base) \ DOMAIN xvars :
          k \in DOMAIN m /\ k \in DOMAIN base /\ m[k] = base[k]

\* C30: a dependency is called with the variables its invoker merged on
\* entry, whatever the dependencies called before it did; the variables it
\* merges are those of its invoker overridden by its own registered
\* variables and by nothing else; and every body, the dependency's and
\* then the invoker's, starts with the variables its execute merged, so
\* that the changes of a dependency are gone when the invoker's body runs.
DependencySeesInvoker ==
    /\ \A j \in DependencyFrames :
          /\ frames[j - 2].fn = "execute" /\ frames[j - 2].pc = "with"
          /\ frames[j - 1].vars = EmptyDict
          /\ frames[j - 1].h_variables = frames[j - 2].h_merged
          /\ frames[j].h_variables = frames[j - 2].h_merged
          /\ Overrides(frames[j].h_merged, frames[j - 2].h_merged,
                       tasks[frames[j].name][frames[j].i].vars)
    /\ BodyNext => variables = Top.h_merged

\* The body of dependency n changed the variables in the latest call
ChangedBy(n) ==
    \E p \in 1..Len(h_log) :
        /\ h_log[p].ev = "body" /\ h_log[p].name = n
        /\ h_log[p].fd = Len(frames) + 2
        /\ \E k \in DOMAIN tasks[n][h_log[p].i].fn :
              LET v == tasks[n][h_log[p].i].fn[k]
              IN  \/ v.kind = "Delete" /\ k \in DOMAIN variables
                  \/ v.kind = "Plain" /\ k \in DOMAIN variables
                     /\ variables[k] # v.value

\* The body of a dependency with variables of its own is about to run
\* under an invoker that merged variables, one of which the dependency
\* does not override, after the body of a dependency of its own changed a
\* variable
DependencySeesInvokerWitness ==
    /\ BodyNext /\ Len(frames) \in DependencyFrames
    /\ Self.vars # EmptyDict
    /\ \E k \in 1..Len(Self.depends) : ChangedBy(Self.depends[k])
    /\ \E k \in DOMAIN variables \ DOMAIN Self.vars :
          /\ k \in DOMAIN frames[Len(frames) - 2].vars
          /\ variables[k] = frames[Len(frames) - 2].h_merged[k]
          /\ variables[k] # 0

\* ------------------------------------------------------------------------
\* The command line
\* ------------------------------------------------------------------------

\* The NAME=VALUE parts of a task:NAME=VALUE[:NAME=VALUE...] parameter
TaskVarParts(p) ==
    LET parts == Split(p, ":")
    IN  {parts[x] : x \in {y \in 2..Len(parts) : Contains(parts[y], "=")}}

\* The names the command line asks to set: NAME of each NAME=VALUE
\* parameter and of each NAME=VALUE part of a task parameter
NamesGiven ==
    {SplitOnce(cmdline.params[x], "=")[1] :
        x \in {y \in 1..Len(cmdline.params) :
                  /\ ~Contains(cmdline.params[y], ":")
                  /\ Contains(cmdline.params[y], "=")}}
    \cup UNION {{SplitOnce(q, "=")[1] : q \in TaskVarParts(cmdline.params[x])} :
                  x \in {y \in 1..Len(cmdline.params) :
                            Contains(cmdline.params[y], ":")}}

\* A name that begins or ends with "_"
Special(n) == n # <<>> /\ "_" \in {n[1], n[Len(n)]}

ReservedErrors == {ReservedVarError, ReservedTaskVarError}

\* C23: when the command line asks to set a name that begins or ends with
\* "_", as NAME=VALUE or as task:NAME=VALUE, main does not get past the
\* parsing of its parameters: if a task file was found it ends with the
\* reserved-name error, and no variable is ever set, no script loaded, no
\* task registered or called; a command line without such a name never
\* raises that error.
ReservedNameRejected ==
    IF \E n \in NamesGiven : Special(n)
    THEN /\ variables = EmptyDict /\ variables_default = {}
         /\ tasks = EmptyDict /\ script = <<>> /\ script_stack = <<>>
         /\ ~app.loading /\ ncalls = 0 /\ frames = <<>>
         /\ app.pc \in {1, 2}
         /\ app.end \in {"none", "failed", "aborted"}
         /\ app.end = "failed" => error \in ReservedErrors
         /\ app.end = "aborted" => app.taskfile = <<>>
         /\ (app.end = "none" /\ app.pc = 2) => app.taskfile # <<>>
    ELSE error \notin ReservedErrors

\* A command line that gives a variable and then a task variable whose
\* name ends with "_" was rejected, and the variable given first was not
\* set
ReservedNameRejectedWitness ==
    /\ Len(cmdline.params) = 2
    /\ cmdline.params[1] = <<"k", "=", "v">>
    /\ cmdline.params[2] =
           <<"A", ":", "i", "=", "v", ":", "k", "_", "=", "w">>
    /\ app.end = "failed" /\ error = ReservedTaskVarError
    /\ variables = EmptyDict

\* The names a script assigns at its top level otherwise than by Default
PlainlySet ==
    UNION {{Code(Files[f])[x].name :
               x \in {y \in 1..Len(Code(Files[f])) :
                         /\ Code(Files[f])[y].op = "set"
                         /\ Code(Files[f])[y].value.kind # "Default"}} :
           f \in 1..Len(Files)}

\* The load of the task file is over and no task is running
Loaded ==
    /\ app.taskfile # <<>> /\ ~app.loading /\ frames = <<>>
    /\ app.end \in {"none", "done"} /\ ~Loading /\ script # <<>>

\* C26: a script-level Default assignment to a name given on the command
\* line as NAME=VALUE leaves the value of the command line, which is in
\* place before the script is loaded and still there after it; a
\* script-level Default to a name not given, and not assigned before
\* otherwise than by Default, sets the name to the default value.
CmdlineBeatsDefault ==
    /\ [][(InLoad /\ Loading /\ script[ip].op = "set"
              /\ script[ip].value.kind = "Default") =>
             IF script[ip].name \in DOMAIN app.params
             THEN /\ script[ip].name \in DOMAIN variables
                  /\ variables[script[ip].name] =
                         app.params[script[ip].name].value
                  /\ variables' = variables
             ELSE (script[ip].name \notin DOMAIN variables
                   \/ script[ip].name \in variables_default) =>
                      /\ script[ip].name \in DOMAIN variables'
                      /\ variables'[script[ip].name] =
                             script[ip].value.value.value]_vars
    /\ [](Loaded => \A n \in DOMAIN app.params \ PlainlySet :
                       n \in DOMAIN variables
                       /\ variables[n] = app.params[n].value)

\* The task file was loaded with k given on the command line and j not:
\* k has the value of the command line, j the default of the script
CmdlineBeatsDefaultWitness ==
    /\ Loaded /\ app.taskfile = <<"t", "T1">>
    /\ DOMAIN app.params = {<<"k">>}
    /\ variables[<<"k">>] = <<"v">> /\ <<"k">> \notin variables_default
    /\ variables[<<"j">>] = <<"d">> /\ <<"j">> \in variables_default

\* ------------------------------------------------------------------------
\* The scope stack under the driver
\* ------------------------------------------------------------------------

\* The include calls that are active
IncludeDepth == Len(loads)

\* C24 as claimed: the scope stack has one scope for each active task
\* invocation and for each active include.
ScopePerTaskAndInclude == Len(variable_stack) = OpenScopes + IncludeDepth

\* C24 amended: the scope stack has one scope for each active task
\* invocation and none for an include or for the load of a script.
ScopePerTask ==
    /\ Len(variable_stack) = OpenScopes
    /\ app.loading => variable_stack = <<>>

\* A script included by an included script is being executed, without a
\* scope
ScopePerTaskWitness ==
    /\ InLoad /\ Loading /\ IncludeDepth = 2 /\ Len(script_stack) = 3
    /\ variable_stack = <<>>

\* ------------------------------------------------------------------------
\* The script stack
\* ------------------------------------------------------------------------

\* C31: while a script is executed and no exception is in flight, the
\* script stack holds the task file and one file for each active include,
\* and its top is the file whose code is being executed, also after an
\* included script raised an error that the including script caught; so
\* an include pattern is resolved relative to the directory of the file
\* that is being loaded.
ScriptStackBalanced ==
    InLoad =>
        /\ Len(script_stack) = Len(loads) + 1
        /\ script = Code(script_stack[Len(script_stack)])

====
